---- MODULE Spec2Model ----
(***************************************************************************)
(* Model of the layout and rendering engine of present2pdf                 *)
(* (internal/converter): code tokens to code lines, code block rendering   *)
(* with truncation, the per-slide composer, the HTML block dispatcher and  *)
(* the comment-escape preprocessor.                                        *)
(*                                                                         *)
(* Text is a sequence of one-character strings; NL is the newline and ZWNJ *)
(* stands for the single code point U+200C.  Block tags of an HTML         *)
(* fragment are atomic elements of the sequence.                           *)
(***************************************************************************)
EXTENDS Integers, Sequences, FiniteSets, TLC

VARIABLES
    \* splitTokensIntoLines: input stream, result, position
    tokens, lines, pcSplit,
    \* the Converter: pdf is the log of drawing operations issued, stderr the
    \* log of diagnostics written
    conv,
    \* renderCode: code text, file extension, whether highlightCode fails,
    \* cursor in, cursor out
    codeText, codeExt, lexErr, yIn, yOut, pcCode,
    \* renderHTML: the fragment (with lexErr, yIn, yOut)
    html, pcHTML,
    \* renderSlide: section.Elem, the index of the element the loop is at, the
    \* cursor y, the position in the loop, and the history of the elements
    \* handed to renderElement
    section, elemIdx, ySlide, pcSlide, rendered,
    \* preprocessMarkdownComments: the document source, the result, the
    \* position
    doc, docOut, pcPre,
    \* parseHTMLFormatting: the inline HTML, the locals of the function
    \* (fragments, bold, italic, code, currentURL, currentText and the index
    \* of the match the loop is at), the position
    inline, parser, pcParse,
    \* decodeHTMLEntities: the text, the result, the position
    entity, decoded, pcDecode,
    \* renderImageFile: what the file system and the image library report
    \* for the path (with conv, yIn, yOut), the position
    imgFile, pcImage,
    \* NewConverter: the options passed, the Converter under construction,
    \* the number of options applied
    opts, newConv, optIdx,
    \* renderFormattedText: the fragments, the parameters and the locals of
    \* the function (x, maxWidth, lineHeight, currentX, currentY and the
    \* indices of the fragment and the word the loops are at), the position
    \* (with conv, yIn, yOut)
    textFragments, layout, pcText

splitVars == <<tokens, lines, pcSplit>>
codeVars == <<codeText, codeExt, pcCode>>
callVars == <<lexErr, yIn, yOut>>
htmlVars == <<html, pcHTML>>
slideVars == <<section, elemIdx, ySlide, pcSlide, rendered>>
preVars == <<doc, docOut, pcPre>>
parseVars == <<inline, parser, pcParse>>
decodeVars == <<entity, decoded, pcDecode>>
imageVars == <<imgFile, pcImage>>
optVars == <<opts, newConv, optIdx>>
textVars == <<textFragments, layout, pcText>>
vars == <<tokens, lines, pcSplit, conv, codeText, codeExt, lexErr, yIn, yOut, pcCode,
          html, pcHTML, section, elemIdx, ySlide, pcSlide, rendered, doc, docOut, pcPre,
          inline, parser, pcParse, entity, decoded, pcDecode, imgFile, pcImage,
          opts, newConv, optIdx, textFragments, layout,
          pcText>>

NL == "\n"
ZWNJ == "ZWNJ"

-----------------------------------------------------------------------------
(* Bounds *)
MaxTokens == 2
MaxValLen == 2
\* largest number of newlines in a code text
MaxCodeNewlines == 22
\* largest number of elements of a slide
MaxElems == 3
\* largest number of blocks of an HTML fragment
MaxBlocks == 3
\* largest number of lines of a document
MaxDocLines == 4

-----------------------------------------------------------------------------
(* The Converter (converter.go) *)

\* the Converter after NewConverter(WithQuiet(q)) and initPDF, about to
\* render slide n.  font, textColor and err (the error state of the
\* document) are the state of the pdf; calls and lexed are history: the
\* renderers invoked and the texts handed to highlightCode
NewConv(q, n) ==
    [pdf |-> <<>>, stderr |-> <<>>, quiet |-> q, currentSlideNumber |-> n,
     font |-> <<"", 0>>, textColor |-> "", err |-> FALSE, calls |-> <<>>, lexed |-> <<>>]

IdleConv == conv = NewConv(FALSE, 0)
IdleSplit == tokens = <<>> /\ lines = <<>> /\ pcSplit = "idle"
IdleCode == codeText = <<>> /\ codeExt = "" /\ pcCode = "idle"
IdleCall == lexErr = FALSE /\ yIn = 0 /\ yOut = 0
IdleHTML == html = <<>> /\ pcHTML = "idle"
IdleSlide ==
    section = <<>> /\ elemIdx = 0 /\ ySlide = 0 /\ pcSlide = "idle" /\ rendered = <<>>
IdlePre == doc = <<>> /\ docOut = <<>> /\ pcPre = "idle"
\* the locals of parseHTMLFormatting before its loop
ParseStart ==
    [fragments |-> <<>>, bold |-> FALSE, italic |-> FALSE, code |-> FALSE,
     currentURL |-> "", currentText |-> <<>>, i |-> 1]
IdleParse == inline = <<>> /\ parser = ParseStart /\ pcParse = "idle"
IdleDecode == entity = <<>> /\ decoded = <<>> /\ pcDecode = "idle"
\* no file at the path
NoFile == [exists |-> FALSE, ext |-> "", loads |-> FALSE, w |-> 0, h |-> 0]
IdleImage == imgFile = NoFile /\ pcImage = "idle"
IdleOpts == opts = <<>> /\ newConv = [codeTheme |-> "", theme |-> "", quiet |-> FALSE] /\ optIdx = 0
\* the variables of the specifications of single functions are idle
\* the locals of renderFormattedText called at x, y with the given width
\* and line height
LayoutStart(x, y, maxWidth, lineHeight) ==
    [x |-> x, maxWidth |-> maxWidth, lineHeight |-> lineHeight,
     currentX |-> x, currentY |-> y, j |-> 1, k |-> 1]
IdleText == textFragments = <<>> /\ layout = LayoutStart(0, 0, 0, 0) /\ pcText = "idle"
IdleFns == IdleParse /\ IdleDecode /\ IdleImage /\ IdleOpts /\ IdleText

-----------------------------------------------------------------------------
(* Text helpers: Go's strings package on sequences of characters *)

\* all sequences over S of length 0..n
SeqsUpTo(S, n) == UNION {[1..k -> S] : k \in 0..n}

\* the elements of a finite set of integers in increasing order
SortedSeq(S) ==
    [k \in 1..Cardinality(S) |-> CHOOSE i \in S : Cardinality({j \in S : j < i}) = k - 1]

\* the concatenation of a sequence of sequences
RECURSIVE Concat(_)
Concat(ss) ==
    IF ss = <<>> THEN <<>>
    ELSE IF Len(ss) = 1 THEN ss[1]
    ELSE LET h == Len(ss) \div 2
         IN  Concat(SubSeq(ss, 1, h)) \o Concat(SubSeq(ss, h + 1, Len(ss)))

\* strings.Count(s, ch) for a one-character ch
Count(s, ch) == Cardinality({i \in 1..Len(s) : s[i] = ch})

\* strings.ReplaceAll(s, ch, "") for a one-character ch
Remove(s, ch) == SelectSeq(s, LAMBDA x : x # ch)

\* strings.Split(s, sep) for a one-character separator
Split(s, sep) ==
    LET at == SortedSeq({i \in 1..Len(s) : s[i] = sep})
        from(k) == IF k = 1 THEN 1 ELSE at[k - 1] + 1
        to(k) == IF k = Len(at) + 1 THEN Len(s) ELSE at[k] - 1
    IN  [k \in 1..(Len(at) + 1) |-> SubSeq(s, from(k), to(k))]

\* strings.Join(parts, sep)
RECURSIVE Join(_, _)
Join(parts, sep) ==
    IF parts = <<>> THEN <<>>
    ELSE IF Len(parts) = 1 THEN parts[1]
    ELSE LET h == Len(parts) \div 2
         IN  Join(SubSeq(parts, 1, h), sep) \o <<sep>>
                 \o Join(SubSeq(parts, h + 1, Len(parts)), sep)

\* unicode.IsSpace on the characters of the model (U+200C is not a space)
IsSpace(ch) == ch \in {" ", NL, "\t"}

\* strings.TrimSpace
RECURSIVE TrimLeft(_)
TrimLeft(s) == IF s # <<>> /\ IsSpace(Head(s)) THEN TrimLeft(Tail(s)) ELSE s

RECURSIVE TrimRight(_)
TrimRight(s) ==
    IF s # <<>> /\ IsSpace(s[Len(s)]) THEN TrimRight(SubSeq(s, 1, Len(s) - 1)) ELSE s

TrimSpace(s) == TrimRight(TrimLeft(s))

\* strings.HasPrefix
HasPrefix(s, pre) == Len(s) >= Len(pre) /\ SubSeq(s, 1, Len(pre)) = pre

\* strings.ReplaceAll(s, old, new) for a non-empty old
RECURSIVE ReplaceAll(_, _, _)
ReplaceAll(s, old, new) ==
    IF s = <<>> THEN <<>>
    ELSE IF HasPrefix(s, old) THEN new \o ReplaceAll(SubSeq(s, Len(old) + 1, Len(s)), old, new)
    ELSE <<Head(s)>> \o ReplaceAll(Tail(s), old, new)

\* strings.Fields: the maximal runs of non-space characters
RECURSIVE Fields(_)
Fields(s) ==
    LET t == TrimLeft(s)
        RECURSIVE WordLen(_)
        WordLen(k) == IF k < Len(t) /\ ~IsSpace(t[k + 1]) THEN WordLen(k + 1) ELSE k
    IN  IF t = <<>> THEN <<>>
        ELSE LET n == WordLen(1)
             IN  <<SubSeq(t, 1, n)>> \o Fields(SubSeq(t, n + 1, Len(t)))

\* index of the first element of s at or after i that satisfies P, 0 if none
IndexFrom(s, i, P(_)) ==
    LET S == {k \in i..Len(s) : P(s[k])}
    IN  IF S = {} THEN 0 ELSE CHOOSE k \in S : \A m \in S : k <= m

Contains(s, P(_)) == IndexFrom(s, 1, P) # 0

-----------------------------------------------------------------------------
(* Tokens (render_code.go) *)

\* Token{Type, Value, Color}
Token(t, v, c) == [Type |-> t, Value |-> v, Color |-> c]

\* the inner loop body of splitTokensIntoLines for part i of one token;
\* st = [lines, currentLine, i, k] holds the two slices and the two loop
\* indices
SplitPart_NoCopy(st, token, parts, i) ==
    LET st1 == IF i > 1
               THEN [st EXCEPT !.lines = Append(st.lines, st.currentLine),
                               !.currentLine = <<>>]
               ELSE st
    IN  IF parts[i] # <<>>
        THEN [st1 EXCEPT !.currentLine =
                 Append(@, Token("Text", parts[i], <<171, 178, 191>>))]
        ELSE st1

SplitPart(st, token, parts, i) ==
    LET st1 == IF i > 1
               THEN [st EXCEPT !.lines = Append(st.lines, st.currentLine),
                               !.currentLine = <<>>]
               ELSE st
    IN  IF parts[i] # <<>>
        THEN [st1 EXCEPT !.currentLine =
                 Append(@, Token(token.Type, parts[i], token.Color))]
        ELSE st1

\* for i, part := range parts
RECURSIVE SplitParts(_, _, _)
SplitParts(st, token, parts) ==
    IF st.i > Len(parts) THEN st
    ELSE SplitParts([SplitPart(st, token, parts, st.i) EXCEPT !.i = st.i + 1],
                    token, parts)

\* for _, token := range tokens
RECURSIVE SplitTokens(_, _)
SplitTokens(st, toks) ==
    IF st.k > Len(toks) THEN st
    ELSE SplitTokens(
             [SplitParts([st EXCEPT !.i = 1], toks[st.k], Split(toks[st.k].Value, NL))
                 EXCEPT !.k = st.k + 1],
             toks)

SplitStart == [lines |-> <<>>, currentLine |-> <<>>, i |-> 1, k |-> 1]

\* a version that appends a line only when it holds a token
splitTokensIntoLines_SkipEmpty(toks) ==
    IF Len(toks) = 0 THEN <<>>
    ELSE LET st == SplitTokens(SplitStart, toks)
             all == Append(st.lines, st.currentLine)
         IN  SelectSeq(all, LAMBDA l : l # <<>>)

splitTokensIntoLines(toks) ==
    IF Len(toks) = 0 THEN <<>>
    ELSE LET st == SplitTokens(SplitStart, toks)
         IN  Append(st.lines, st.currentLine)

-----------------------------------------------------------------------------
(* Specification of the token splitter: the input stream is drawn from a  *)
(* bounded set, one action applies splitTokensIntoLines.                  *)

TokenChars == {"a", NL}
TokenStyles == { [Type |-> "Keyword", Color |-> <<198, 120, 221>>],
                 [Type |-> "Text",    Color |-> <<171, 178, 191>>],
                 [Type |-> "Keyword", Color |-> <<171, 178, 191>>] }
TokenSet == { Token(s.Type, v, s.Color) : s \in TokenStyles, v \in SeqsUpTo(TokenChars, MaxValLen) }

InitSplit ==
    /\ tokens \in SeqsUpTo(TokenSet, MaxTokens)
    /\ lines = <<>>
    /\ pcSplit = "start"
    /\ IdleConv /\ IdleCode /\ IdleCall /\ IdleHTML /\ IdleSlide /\ IdlePre /\ IdleFns

DoSplit ==
    /\ pcSplit = "start"
    /\ lines' = splitTokensIntoLines(tokens)
    /\ pcSplit' = "done"
    /\ UNCHANGED <<tokens, conv, codeVars, callVars, htmlVars, slideVars, preVars, parseVars,
                   decodeVars, imageVars, optVars, textVars>>

NextSplit == DoSplit

SpecSplit == InitSplit /\ [][NextSplit]_vars

\* total text of a token stream, and of a list of lines
RECURSIVE TokensText(_)
TokensText(toks) ==
    IF toks = <<>> THEN <<>> ELSE Head(toks).Value \o TokensText(Tail(toks))

RECURSIVE LinesTokens(_)
LinesTokens(ls) == IF ls = <<>> THEN <<>> ELSE Head(ls) \o LinesTokens(Tail(ls))

Newlines(toks) == Count(TokensText(toks), NL)

\* C8 as stated: every token stream with N newlines gives N+1 lines
C8_Original ==
    pcSplit = "done" => Len(lines) = Newlines(tokens) + 1

\* C8 (amended): a non-empty token stream whose values hold N newlines is
\* split into exactly N+1 lines; the empty stream is split into no line.
C8_LineCount ==
    pcSplit = "done" =>
        IF Len(tokens) = 0 THEN Len(lines) = 0
        ELSE Len(lines) = Newlines(tokens) + 1

C8_Witness ==
    /\ pcSplit = "done"
    /\ \E k \in 1..Len(tokens) : tokens[k].Value = <<NL, NL>>
    /\ Len(tokens) = 2
    /\ Len(lines) = 3

\* the input token each output token came from: output tokens are produced
\* in input order, so the j-th output token of the stream belongs to the
\* input token that covers its first non-newline character
RECURSIVE OwnerStyles(_)
OwnerStyles(toks) ==
    IF toks = <<>> THEN <<>>
    ELSE LET t == Head(toks)
             ps == SelectSeq(Split(t.Value, NL), LAMBDA p : p # <<>>)
         IN  [j \in 1..Len(ps) |-> [Type |-> t.Type, Color |-> t.Color, Value |-> ps[j]]]
             \o OwnerStyles(Tail(toks))

\* C9: splitting never drops or reorders token text: the concatenation of
\* the output token values equals the input text with newlines removed, no
\* output token is empty or holds a newline, and every output token has the
\* Type and Color of the input token it came from.
C9_TextPreserved ==
    pcSplit = "done" =>
        LET out == LinesTokens(lines)
        IN  /\ TokensText(out) = Remove(TokensText(tokens), NL)
            /\ \A j \in 1..Len(out) : out[j].Value # <<>> /\ Count(out[j].Value, NL) = 0
            /\ Len(out) = Len(OwnerStyles(tokens))
            /\ \A j \in 1..Len(out) :
                   /\ out[j].Type = OwnerStyles(tokens)[j].Type
                   /\ out[j].Color = OwnerStyles(tokens)[j].Color

C9_Witness ==
    /\ pcSplit = "done"
    /\ Len(tokens) = 2
    /\ tokens[1].Value = <<"a", NL>>
    /\ tokens[2].Value = <<"a", "a">>
    /\ tokens[1].Color # tokens[2].Color
    /\ Len(lines) = 2 /\ Len(lines[1]) = 1 /\ Len(lines[2]) = 1

-----------------------------------------------------------------------------
(* Code blocks (render_code.go) *)

\* lengths are in tenths of a millimetre: the page unit of the source is the
\* millimetre and its smallest offsets are 0.2 and 0.5
mm == 10

\* drawing operations appended to the pdf log
Rect(x, y, w, h) == [op |-> "Rect", x |-> x, y |-> y, w |-> w, h |-> h]
Cell(x, y, txt) == [op |-> "Cell", x |-> x, y |-> y, txt |-> txt]
MultiCell(x, y, txt) == [op |-> "MultiCell", x |-> x, y |-> y, txt |-> txt]
\* one rendered code line: the cells placed for it at height y
CodeLine(y, cells) == [op |-> "CodeLine", y |-> y, cells |-> cells]

\* a drawing method of the pdf: nothing is drawn once the document is in
\* its error state
Draw(c, o) == IF c.err THEN c ELSE [c EXCEPT !.pdf = Append(@, o)]
\* a diagnostic writer that does not look at the quiet flag
Warn_Always(c, d) == [c EXCEPT !.stderr = Append(@, d)]

\* fmt.Fprintf(os.Stderr, ...) under if !c.quiet
Warn(c, d) == IF c.quiet THEN c ELSE [c EXCEPT !.stderr = Append(@, d)]
SetTextColor(c, col) == [c EXCEPT !.textColor = col]
\* setTextFont: Helvetica whatever the style; setCodeFont: JetBrainsMono
setTextFont(c, size) == [c EXCEPT !.font = <<"Helvetica", size>>]
setCodeFont(c, size) == [c EXCEPT !.font = <<"JetBrainsMono", size>>]

\* maxLines := 20
maxLines == 20
\* width of one character of the code font (JetBrainsMono 11, monospace)
CodeCharWidth == 23

\* c.pdf.GetStringWidth in the code font
CodeStringWidth(value) == CodeCharWidth * Len(value)

\* detectLanguage on the extension of the file name
detectLanguage(ext) ==
    CASE ext = "go" -> "go"
      [] ext = "py" -> "python"
      [] ext = "js" -> "javascript"
      [] ext = "ts" -> "typescript"
      [] ext = "java" -> "java"
      [] ext = "c" -> "c"
      [] ext \in {"cpp", "cc", "cxx"} -> "cpp"
      [] ext = "rs" -> "rust"
      [] ext = "rb" -> "ruby"
      [] ext = "php" -> "php"
      [] ext \in {"sh", "bash"} -> "bash"
      [] ext = "html" -> "html"
      [] ext = "css" -> "css"
      [] ext = "json" -> "json"
      [] ext = "xml" -> "xml"
      [] ext \in {"yaml", "yml"} -> "yaml"
      [] ext = "sql" -> "sql"
      [] OTHER -> "go"

\* lexers.Get(language), lexers.Fallback when there is none
KnownLexers ==
    {"go", "python", "javascript", "typescript", "java", "c", "cpp", "rust", "ruby",
     "php", "bash", "html", "css", "json", "xml", "yaml", "sql"}
LexerFor(language) == IF language \in KnownLexers THEN language ELSE "fallback"

\* the external lexer, coalesced: the token values concatenate to the code.
\* A language lexer makes a maximal run of newlines one Text token and a
\* maximal run of other characters one Name token; the fallback lexer makes
\* the whole text one Text token.
TokeniseRuns(code) ==
    LET isNL(i) == code[i] = NL
        starts == SortedSeq({i \in 1..Len(code) : i = 1 \/ isNL(i) # isNL(i - 1)})
        end(k) == IF k = Len(starts) THEN Len(code) ELSE starts[k + 1] - 1
    IN  [k \in 1..Len(starts) |->
            [Type |-> IF isNL(starts[k]) THEN "Text" ELSE "Name",
             Value |-> SubSeq(code, starts[k], end(k))]]

Tokenise(lexer, code) ==
    IF lexer = "fallback"
    THEN (IF code = <<>> THEN <<>> ELSE << [Type |-> "Text", Value |-> code] >>)
    ELSE TokeniseRuns(code)

\* getTokenColor with a style that sets no colour for the type
getTokenColor(tokenType) ==
    CASE tokenType = "Keyword" -> <<198, 120, 221>>
      [] tokenType = "Name"    -> <<97, 175, 239>>
      [] OTHER                 -> <<171, 178, 191>>

\* highlightCode: lexer tokens with their colours (the error return is the
\* caller's err)
highlightCode(code, language) ==
    LET ts == Tokenise(LexerFor(language), code)
    IN  [k \in 1..Len(ts) |-> Token(ts[k].Type, ts[k].Value, getTokenColor(ts[k].Type))]

\* c.translator, the cp1251 translator of the pdf library: a character that
\* the code page does not have becomes a full stop
translator(str) == [i \in 1..Len(str) |-> IF str[i] = ZWNJ THEN "." ELSE str[i]]

\* renderHighlightedLine: the cells of one line, left to right from x
RECURSIVE HighlightedCells(_, _)
HighlightedCells(toks, x) ==
    IF toks = <<>> THEN <<>>
    ELSE LET value == translator(Head(toks).Value)
         IN  << [x |-> x, txt |-> value, color |-> Head(toks).Color] >>
             \o HighlightedCells(Tail(toks), x + CodeStringWidth(value))

renderHighlightedLine(c, toks, x, y) ==
    LET c1 == Draw(c, CodeLine(y, HighlightedCells(toks, x)))
    IN  IF toks = <<>> THEN c1
        ELSE setCodeFont(SetTextColor(c1, toks[Len(toks)].Color), 11)

\* a code height without the cap
codeHeightOf_Uncapped(n) == n * 6 * mm

\* codeHeight := float64(len(lines)) * 6, at most 120
codeHeightOf(n) == IF n * 6 * mm > 120 * mm THEN 120 * mm ELSE n * 6 * mm

TruncationWarning(c, n) ==
    [kind |-> "truncated", slide |-> c.currentSlideNumber, max |-> maxLines, has |-> n]

Ellipsis == <<".", ".", ".">>

\* the state of the line loops: the converter, the 1-based index of the
\* line and lineY
LineLoopStart(c, y) == [c |-> c, i |-> 1, lineY |-> y + 2 * mm]

\* a loop that draws every line and never truncates
RECURSIVE HighlightedLoop_NoLimit(_, _)
HighlightedLoop_NoLimit(st, ls) ==
    IF st.i > Len(ls) THEN st.c
    ELSE HighlightedLoop_NoLimit(
             [c |-> renderHighlightedLine(st.c, ls[st.i], 25 * mm, st.lineY),
              i |-> st.i + 1, lineY |-> st.lineY + 6 * mm], ls)

\* the loop of renderHighlightedCode
RECURSIVE HighlightedLoop(_, _)
HighlightedLoop(st, ls) ==
    IF st.i > Len(ls) THEN st.c
    ELSE IF st.i - 1 >= maxLines
         THEN Draw(setCodeFont(SetTextColor(Warn(st.c, TruncationWarning(st.c, Len(ls))),
                                            "CodeLineNumber"), 11),
                   Cell(25 * mm, st.lineY, translator(Ellipsis)))
         ELSE HighlightedLoop(
                  [c |-> renderHighlightedLine(st.c, ls[st.i], 25 * mm, st.lineY),
                   i |-> st.i + 1, lineY |-> st.lineY + 6 * mm], ls)

\* renderHighlightedCode returns [c, y]
renderHighlightedCode(c, toks, y) ==
    LET ls == splitTokensIntoLines(toks)
        codeHeight == codeHeightOf(Len(ls))
        c1 == Draw(c, Rect(20 * mm, y, 257 * mm, codeHeight + 5 * mm))
    IN  [c |-> SetTextColor(HighlightedLoop(LineLoopStart(c1, y), ls), "SlideText"),
         y |-> y + codeHeight + 12 * mm]

PlainLine(y, line) ==
    CodeLine(y, << [x |-> 25 * mm, txt |-> translator(line), color |-> "CodeText"] >>)

\* the loop of renderCodePlain
RECURSIVE PlainLoop(_, _)
PlainLoop(st, ls) ==
    IF st.i > Len(ls) THEN st.c
    ELSE IF st.i - 1 >= maxLines
         THEN Draw(Warn(st.c, TruncationWarning(st.c, Len(ls))),
                   Cell(25 * mm, st.lineY, translator(Ellipsis)))
         ELSE PlainLoop([c |-> Draw(st.c, PlainLine(st.lineY, ls[st.i])),
                         i |-> st.i + 1, lineY |-> st.lineY + 6 * mm], ls)

\* renderCodePlain returns [c, y]
renderCodePlain(c, code, y) ==
    LET ls == Split(code, NL)
        codeHeight == codeHeightOf(Len(ls))
        c1 == Draw(c, Rect(20 * mm, y, 257 * mm, codeHeight + 5 * mm))
        c2 == SetTextColor(setCodeFont(c1, 11), "CodeText")
    IN  [c |-> SetTextColor(PlainLoop(LineLoopStart(c2, y), ls), "SlideText"),
         y |-> y + codeHeight + 12 * mm]

\* a tail that gives up when highlightCode fails
HighlightOrPlain_Abort(c, code, language, err, y) ==
    LET c1 == [c EXCEPT !.lexed = Append(@, code)]
    IN  IF err THEN [c |-> c1, y |-> y]
        ELSE renderHighlightedCode(c1, highlightCode(code, language), y)

\* the tail shared by renderCode, renderMarkdownCodeBlock and renderHTMLCode:
\* highlight, and fall back to the plain rendering when highlightCode fails.
\* The text handed to highlightCode is recorded in c.lexed.
HighlightOrPlain(c, code, language, err, y) ==
    LET c1 == [c EXCEPT !.lexed = Append(@, code)]
    IN  IF err THEN renderCodePlain(c1, code, y)
        ELSE renderHighlightedCode(c1, highlightCode(code, language), y)

\* renderCode(code, y) for a present.Code element; ext is the extension of
\* its FileName, "" when it has none
renderCode(c, code, ext, err, y) ==
    HighlightOrPlain(c, code, IF ext = "" THEN "go" ELSE detectLanguage(ext), err, y)

-----------------------------------------------------------------------------
(* Specification of code block rendering: a code text, a lexer outcome, a *)
(* start cursor and the quiet flag are drawn; one action is renderCode.   *)

\* code texts with n newlines: every line "ab", every line empty, or
\* alternating
CodeTexts(n) ==
    { Join([i \in 1..(n + 1) |-> <<"a", "b">>], NL),
      Join([i \in 1..(n + 1) |-> <<>>], NL),
      Join([i \in 1..(n + 1) |-> IF i % 2 = 1 THEN <<"a">> ELSE <<>>], NL) }

InitCode ==
    /\ \E n \in 0..MaxCodeNewlines : codeText \in CodeTexts(n)
    /\ codeExt \in {"", "go", "txt", "zz"}
    /\ lexErr \in BOOLEAN
    /\ yIn \in {45 * mm, 60 * mm}
    /\ yOut = 0
    /\ pcCode = "start"
    /\ \E q \in BOOLEAN, n \in {2, 3} : conv = NewConv(q, n)
    /\ IdleSplit /\ IdleHTML /\ IdleSlide /\ IdlePre /\ IdleFns

RenderCode ==
    /\ pcCode = "start"
    /\ \E r \in {renderCode(conv, codeText, codeExt, lexErr, yIn)} :
           conv' = r.c /\ yOut' = r.y
    /\ pcCode' = "done"
    /\ UNCHANGED <<codeText, codeExt, lexErr, yIn, splitVars, htmlVars, slideVars, preVars,
                   parseVars, decodeVars, imageVars, optVars, textVars>>

NextCode == RenderCode

SpecCode == InitCode /\ [][NextCode]_vars

\* the line list the rendering path works on
CodeLinesOf(code, ext, err) ==
    IF err THEN Split(code, NL)
    ELSE splitTokensIntoLines(highlightCode(code, IF ext = "" THEN "go" ELSE detectLanguage(ext)))

Min(a, b) == IF a < b THEN a ELSE b

OpsOf(kind) == SelectSeq(conv.pdf, LAMBDA o : o.op = kind)

\* C10: for a code block of L lines exactly min(L, 20) code lines are drawn
\* (line i at y + 2 + 6*(i-1)); the ellipsis is drawn exactly once iff
\* L > 20, at the position of line 21; and with quiet = false exactly one
\* truncation diagnostic (max 20, has L) is written iff L > 20, with quiet =
\* true none.
C10_Truncation ==
    pcCode = "done" =>
        LET L == Len(CodeLinesOf(codeText, codeExt, lexErr))
            drawn == OpsOf("CodeLine")
            dots == OpsOf("Cell")
        IN  /\ Len(drawn) = Min(L, 20)
            /\ \A i \in 1..Len(drawn) : drawn[i].y = yIn + 2 * mm + 6 * mm * (i - 1)
            /\ Len(dots) = (IF L > 20 THEN 1 ELSE 0)
            /\ \A i \in 1..Len(dots) :
                   /\ dots[i].txt = <<".", ".", ".">>
                   /\ dots[i].y = yIn + 2 * mm + 6 * mm * 20
                   /\ dots[i] = conv.pdf[Len(conv.pdf)]
            /\ conv.stderr =
                   IF L > 20 /\ ~conv.quiet
                   THEN << [kind |-> "truncated", slide |-> conv.currentSlideNumber,
                            max |-> 20, has |-> L] >>
                   ELSE <<>>

C10_Witness ==
    /\ pcCode = "done"
    /\ Len(CodeLinesOf(codeText, codeExt, lexErr)) = 22
    /\ ~conv.quiet
    /\ Len(conv.stderr) = 1
    /\ Len(OpsOf("CodeLine")) = 20
    /\ Len(OpsOf("Cell")) = 1

\* C28: for a code block that its rendering path splits into L lines, drawn
\* at cursor y, the background rectangle is the first drawing operation,
\* starts at y and has the height min(6*L, 120) + 5; the cursor returned is
\* y + min(6*L, 120) + 12, which is at most y + 132; this holds on the
\* highlighted path and on the plain path.
C28_HeightBounded ==
    pcCode = "done" =>
        LET L == Len(CodeLinesOf(codeText, codeExt, lexErr))
            boxes == OpsOf("Rect")
        IN  /\ Len(boxes) = 1
            /\ boxes[1] = conv.pdf[1]
            /\ boxes[1].y = yIn
            /\ boxes[1].h = Min(6 * mm * L, 120 * mm) + 5 * mm
            /\ yOut = yIn + Min(6 * mm * L, 120 * mm) + 12 * mm
            /\ yOut - yIn <= 132 * mm

\* a highlighted code block of 23 lines has advanced the cursor by 132
C28_Witness ==
    /\ pcCode = "done"
    /\ ~lexErr
    /\ Len(CodeLinesOf(codeText, codeExt, lexErr)) = 23
    /\ OpsOf("Rect")[1].h = 125 * mm
    /\ yOut = yIn + 132 * mm

\* a plain code block of 21 lines has advanced the cursor by 132, one of 3
\* lines by 30
C28_WitnessPlain ==
    /\ pcCode = "done"
    /\ lexErr
    /\ \/ Len(CodeLinesOf(codeText, codeExt, lexErr)) = 21 /\ yOut = yIn + 132 * mm
       \/ Len(CodeLinesOf(codeText, codeExt, lexErr)) = 3 /\ yOut = yIn + 30 * mm

-----------------------------------------------------------------------------
(* HTML fragments (render_html.go).  A fragment is a sequence whose       *)
(* elements are single characters and whole tags.                         *)

CodeOpenTags ==
    {"<pre><code>", "<pre><code class=\"language-go\">", "<pre><code class=\"language-zz\">"}
CodeCloseTag == "</code></pre>"
AnchorOpenTags == {"<a href=\"U\">", "<a href=\"V\">", "<a name=\"n\">"}
ImgTags ==
    {"<img src=\"a.png\">", "<img src=\"none.png\">", "<img alt=\"x\">",
     "<img src=\"a.bmp\">", "<img src=\"bad.png\">", "<img src=\"w.png\">"}
InlineTags ==
    {"<strong>", "</strong>", "<b>", "</b>", "<em>", "</em>", "<i>", "</i>",
     "<code>", "</code>", "</a>", "<br>", "<STRONG>", "</STRONG>"} \cup AnchorOpenTags
BlockTags ==
    {"<p>", "</p>", "<ul>", "</ul>", "<ol>", "</ol>", "<li>", "</li>",
     "<blockquote>", "</blockquote>", CodeCloseTag} \cup CodeOpenTags
Tags == BlockTags \cup InlineTags \cup ImgTags

IsTag(t) == t \in Tags

\* strings.ToLower on a tag
ToLower(t) ==
    CASE t = "<STRONG>" -> "<strong>"
      [] t = "</STRONG>" -> "</strong>"
      [] OTHER -> t

\* the language of <code class="language-(\w+)">, "" when the tag has none
CodeClass(t) ==
    CASE t = "<pre><code class=\"language-go\">" -> "go"
      [] t = "<pre><code class=\"language-zz\">" -> "zz"
      [] OTHER -> ""

\* the href of an opening anchor tag, "" when the tag has none
HrefOf(t) ==
    CASE t = "<a href=\"U\">" -> "U"
      [] t = "<a href=\"V\">" -> "V"
      [] OTHER -> ""

\* the seven replacements with &amp; replaced last
decodeHTMLEntities_AmpLast(text) ==
    LET t1 == ReplaceAll(text, <<"&", "l", "t", ";">>, <<"<">>)
        t2 == ReplaceAll(t1, <<"&", "g", "t", ";">>, <<">">>)
        t4 == ReplaceAll(t2, <<"&", "q", "u", "o", "t", ";">>, <<"\"">>)
        t5 == ReplaceAll(t4, <<"&", "#", "3", "9", ";">>, <<"'">>)
        t6 == ReplaceAll(t5, <<"&", "#", "3", "4", ";">>, <<"\"">>)
        t7 == ReplaceAll(t6, <<"&", "a", "p", "o", "s", ";">>, <<"'">>)
    IN  ReplaceAll(t7, <<"&", "a", "m", "p", ";">>, <<"&">>)

\* decodeHTMLEntities: seven replacements, in the order of the source
decodeHTMLEntities(text) ==
    LET t1 == ReplaceAll(text, <<"&", "l", "t", ";">>, <<"<">>)
        t2 == ReplaceAll(t1, <<"&", "g", "t", ";">>, <<">">>)
        t3 == ReplaceAll(t2, <<"&", "a", "m", "p", ";">>, <<"&">>)
        t4 == ReplaceAll(t3, <<"&", "q", "u", "o", "t", ";">>, <<"\"">>)
        t5 == ReplaceAll(t4, <<"&", "#", "3", "9", ";">>, <<"'">>)
        t6 == ReplaceAll(t5, <<"&", "#", "3", "4", ";">>, <<"\"">>)
    IN  ReplaceAll(t6, <<"&", "a", "p", "o", "s", ";">>, <<"'">>)

\* stripHTMLTags: remove the tags, then decode the entities
stripHTMLTags(h) == decodeHTMLEntities(SelectSeq(h, LAMBDA t : ~IsTag(t)))

\* TextFragment{Text, Bold, Italic, Code, URL}
TextFragment(text, st) ==
    [Text |-> text, Bold |-> st.bold, Italic |-> st.italic, Code |-> st.code, URL |-> st.currentURL]

\* flushText without the test on currentText.Len()
flushText_Always(st) ==
    [st EXCEPT !.fragments = Append(@, TextFragment(decodeHTMLEntities(st.currentText), st)),
               !.currentText = <<>>]

\* flushText of parseHTMLFormatting; st = [fragments, bold, italic, code,
\* currentURL, currentText, i] with i the 1-based index of the match
flushText(st) ==
    IF Len(st.currentText) > 0
    THEN [st EXCEPT !.fragments = Append(@, TextFragment(decodeHTMLEntities(st.currentText), st)),
                    !.currentText = <<>>]
    ELSE st

\* the switch on one tag with a closing anchor that ends every style
ProcessTag_CloseAll(st, match) ==
    LET lowerMatch == ToLower(match)
    IN  CASE lowerMatch \in {"<strong>", "<b>"} -> [st EXCEPT !.bold = TRUE]
          [] lowerMatch \in {"</strong>", "</b>"} -> [st EXCEPT !.bold = FALSE]
          [] lowerMatch \in {"<em>", "<i>"} -> [st EXCEPT !.italic = TRUE]
          [] lowerMatch \in {"</em>", "</i>"} -> [st EXCEPT !.italic = FALSE]
          [] lowerMatch \in {"<code>", "<pre><code>"} -> [st EXCEPT !.code = TRUE]
          [] lowerMatch \in {"</code>", CodeCloseTag} -> [st EXCEPT !.code = FALSE]
          [] lowerMatch \in AnchorOpenTags ->
                 IF HrefOf(match) # "" THEN [st EXCEPT !.currentURL = HrefOf(match)] ELSE st
          [] lowerMatch = "</a>" ->
                 [st EXCEPT !.currentURL = "", !.bold = FALSE, !.italic = FALSE, !.code = FALSE]
          [] OTHER -> st

\* the switch of parseHTMLFormatting on one tag.  The tag <pre><code> is the
\* two tags <pre> and <code>, </code></pre> the two tags </code> and </pre>.
ProcessTag(st, match) ==
    LET lowerMatch == ToLower(match)
    IN  CASE lowerMatch \in {"<strong>", "<b>"} -> [st EXCEPT !.bold = TRUE]
          [] lowerMatch \in {"</strong>", "</b>"} -> [st EXCEPT !.bold = FALSE]
          [] lowerMatch \in {"<em>", "<i>"} -> [st EXCEPT !.italic = TRUE]
          [] lowerMatch \in {"</em>", "</i>"} -> [st EXCEPT !.italic = FALSE]
          [] lowerMatch \in {"<code>", "<pre><code>"} -> [st EXCEPT !.code = TRUE]
          [] lowerMatch \in {"</code>", CodeCloseTag} -> [st EXCEPT !.code = FALSE]
          [] lowerMatch \in AnchorOpenTags ->
                 IF HrefOf(match) # "" THEN [st EXCEPT !.currentURL = HrefOf(match)] ELSE st
          [] lowerMatch = "</a>" -> [st EXCEPT !.currentURL = ""]
          [] OTHER -> st

\* the body of the loop of parseHTMLFormatting on the match at st.i; a text
\* match is appended character by character
ParseMatch(st, h) ==
    IF IsTag(h[st.i])
    THEN [ProcessTag(flushText(st), h[st.i]) EXCEPT !.i = @ + 1]
    ELSE [st EXCEPT !.currentText = Append(@, h[st.i]), !.i = @ + 1]

\* for _, match := range matches
RECURSIVE ParseLoop(_, _)
ParseLoop(st, h) == IF st.i > Len(h) THEN st ELSE ParseLoop(ParseMatch(st, h), h)

parseHTMLFormatting(h) == flushText(ParseLoop(ParseStart, h)).fragments

\* c.pdf.GetStringWidth: JetBrainsMono is monospace; in Helvetica 18 the
\* character W stands for a run of characters 100 mm wide, so that short
\* texts reach the right margin
boldOffset == 2
TextCharWidth == 32
InlineCodeCharWidth == 34

CharWidth(font, ch) ==
    IF font[1] = "JetBrainsMono"
    THEN (IF font[2] = 16 THEN InlineCodeCharWidth ELSE CodeCharWidth)
    ELSE (IF ch = "W" THEN 100 * mm ELSE TextCharWidth)

RECURSIVE GetStringWidth(_, _)
GetStringWidth(font, str) ==
    IF str = <<>> THEN 0 ELSE CharWidth(font, Head(str)) + GetStringWidth(font, Tail(str))

\* more drawing operations
CellFormat(x, y, w, txt, link) ==
    [op |-> "CellFormat", x |-> x, y |-> y, w |-> w, txt |-> txt, link |-> link]
WordCell(x, y, w, txt) == [op |-> "Cell", x |-> x, y |-> y, w |-> w, txt |-> txt]
Line(x1, y1, x2, y2) == [op |-> "Line", x1 |-> x1, y1 |-> y1, x2 |-> x2, y2 |-> y2]
TransformBegin == [op |-> "TransformBegin"]
TransformSkew(x, y) == [op |-> "TransformSkew", x |-> x, y |-> y]
TransformEnd == [op |-> "TransformEnd"]

\* a word loop body that breaks the line before a word that does not fit
\* even at the start of a line
RenderWord_WrapAtStart(st, fragment, word, x, maxWidth, lineHeight) ==
    LET isLink == fragment.URL # ""
        isCode == fragment.Code
        translatedWord == translator(word \o <<" ">>)
        wordWidth == GetStringWidth(st.c.font, translatedWord)
        wrap == st.currentX + wordWidth > x + maxWidth
        currentY == IF wrap THEN st.currentY + lineHeight ELSE st.currentY
        currentX == IF wrap THEN x ELSE st.currentX
        fill == IF isCode
                THEN << Rect(currentX, currentY + 5, wordWidth, lineHeight - 1 * mm) >>
                ELSE <<>>
        skew == IF fragment.Italic
                THEN << TransformBegin, TransformSkew(currentX, currentY) >>
                ELSE <<>>
        drawWord ==
            IF isLink
            THEN << CellFormat(currentX, currentY, wordWidth, translatedWord, fragment.URL),
                    Line(currentX, currentY + lineHeight - 1 * mm,
                         currentX + wordWidth, currentY + lineHeight - 1 * mm) >>
            ELSE << WordCell(currentX, currentY, wordWidth, translatedWord) >>
        bold ==
            IF ~fragment.Bold THEN <<>>
            ELSE IF isLink
            THEN << CellFormat(currentX + boldOffset, currentY, wordWidth, translatedWord,
                               fragment.URL) >>
            ELSE << WordCell(currentX + boldOffset, currentY, wordWidth, translatedWord) >>
        unskew == IF fragment.Italic THEN << TransformEnd >> ELSE <<>>
    IN  [c |-> [st.c EXCEPT !.pdf = IF st.c.err THEN @
                                    ELSE @ \o fill \o skew \o drawWord \o bold \o unskew,
                            !.textColor = IF isCode THEN "InlineCodeText" ELSE @],
         currentX |-> currentX + wordWidth, currentY |-> currentY,
         j |-> st.j, k |-> st.k + 1]

\* a word loop body that ends the skew of a word only if it is not bold
RenderWord_SkewLeftOpen(st, fragment, word, x, maxWidth, lineHeight) ==
    LET isLink == fragment.URL # ""
        isCode == fragment.Code
        translatedWord == translator(word \o <<" ">>)
        wordWidth == GetStringWidth(st.c.font, translatedWord)
        wrap == st.currentX + wordWidth > x + maxWidth /\ st.currentX > x
        currentY == IF wrap THEN st.currentY + lineHeight ELSE st.currentY
        currentX == IF wrap THEN x ELSE st.currentX
        fill == IF isCode
                THEN << Rect(currentX, currentY + 5, wordWidth, lineHeight - 1 * mm) >>
                ELSE <<>>
        skew == IF fragment.Italic
                THEN << TransformBegin, TransformSkew(currentX, currentY) >>
                ELSE <<>>
        drawWord ==
            IF isLink
            THEN << CellFormat(currentX, currentY, wordWidth, translatedWord, fragment.URL),
                    Line(currentX, currentY + lineHeight - 1 * mm,
                         currentX + wordWidth, currentY + lineHeight - 1 * mm) >>
            ELSE << WordCell(currentX, currentY, wordWidth, translatedWord) >>
        bold ==
            IF ~fragment.Bold THEN <<>>
            ELSE IF isLink
            THEN << CellFormat(currentX + boldOffset, currentY, wordWidth, translatedWord,
                               fragment.URL) >>
            ELSE << WordCell(currentX + boldOffset, currentY, wordWidth, translatedWord) >>
        unskew == IF fragment.Italic /\ ~fragment.Bold THEN << TransformEnd >> ELSE <<>>
    IN  [c |-> [st.c EXCEPT !.pdf = IF st.c.err THEN @
                                    ELSE @ \o fill \o skew \o drawWord \o bold \o unskew,
                            !.textColor = IF isCode THEN "InlineCodeText" ELSE @],
         currentX |-> currentX + wordWidth, currentY |-> currentY,
         j |-> st.j, k |-> st.k + 1]

\* the body of the word loop of renderFormattedText;
\* st = [c, currentX, currentY, j, k] with j and k the 1-based indices of the
\* fragment and of the word.  The drawing operations of one word, in the
\* order the source issues them: the fill behind inline code, the skew of
\* italic text, drawWord, the second pass of bold text, the end of the skew.
RenderWord(st, fragment, word, x, maxWidth, lineHeight) ==
    LET isLink == fragment.URL # ""
        isCode == fragment.Code
        translatedWord == translator(word \o <<" ">>)
        wordWidth == GetStringWidth(st.c.font, translatedWord)
        wrap == st.currentX + wordWidth > x + maxWidth /\ st.currentX > x
        currentY == IF wrap THEN st.currentY + lineHeight ELSE st.currentY
        currentX == IF wrap THEN x ELSE st.currentX
        fill == IF isCode
                THEN << Rect(currentX, currentY + 5, wordWidth, lineHeight - 1 * mm) >>
                ELSE <<>>
        skew == IF fragment.Italic
                THEN << TransformBegin, TransformSkew(currentX, currentY) >>
                ELSE <<>>
        drawWord ==
            IF isLink
            THEN << CellFormat(currentX, currentY, wordWidth, translatedWord, fragment.URL),
                    Line(currentX, currentY + lineHeight - 1 * mm,
                         currentX + wordWidth, currentY + lineHeight - 1 * mm) >>
            ELSE << WordCell(currentX, currentY, wordWidth, translatedWord) >>
        bold ==
            IF ~fragment.Bold THEN <<>>
            ELSE IF isLink
            THEN << CellFormat(currentX + boldOffset, currentY, wordWidth, translatedWord,
                               fragment.URL) >>
            ELSE << WordCell(currentX + boldOffset, currentY, wordWidth, translatedWord) >>
        unskew == IF fragment.Italic THEN << TransformEnd >> ELSE <<>>
    IN  [c |-> [st.c EXCEPT !.pdf = IF st.c.err THEN @
                                    ELSE @ \o fill \o skew \o drawWord \o bold \o unskew,
                            !.textColor = IF isCode THEN "InlineCodeText" ELSE @],
         currentX |-> currentX + wordWidth, currentY |-> currentY,
         j |-> st.j, k |-> st.k + 1]

\* for _, word := range words
RECURSIVE RenderWords(_, _, _, _, _, _)
RenderWords(st, fragment, words, x, maxWidth, lineHeight) ==
    IF st.k > Len(words) THEN st
    ELSE RenderWords(RenderWord(st, fragment, words[st.k], x, maxWidth, lineHeight),
                     fragment, words, x, maxWidth, lineHeight)

\* the font and colour a fragment is drawn in, and those restored after it
BeginFragment(c, fragment) ==
    IF fragment.Code THEN SetTextColor(setCodeFont(c, 16), "InlineCodeText")
    ELSE IF fragment.URL # "" THEN SetTextColor(c, "LinkColor")
    ELSE c

\* an end of fragment that restores the style after inline code only
EndFragment_CodeOnly(c, fragment) ==
    IF fragment.Code THEN SetTextColor(setTextFont(c, 18), "SlideText")
    ELSE c

EndFragment(c, fragment) ==
    IF fragment.Code THEN SetTextColor(setTextFont(c, 18), "SlideText")
    ELSE IF fragment.URL # "" THEN SetTextColor(c, "SlideText")
    ELSE c

\* the body of the fragment loop of renderFormattedText
RenderFragment(st, fragment, x, maxWidth, lineHeight) ==
    [RenderWords([st EXCEPT !.c = BeginFragment(@, fragment), !.k = 1], fragment,
                 Fields(fragment.Text), x, maxWidth, lineHeight)
        EXCEPT !.c = EndFragment(@, fragment), !.j = @ + 1]

\* for _, fragment := range fragments
RECURSIVE RenderFragments(_, _, _, _, _)
RenderFragments(st, fragments, x, maxWidth, lineHeight) ==
    IF st.j > Len(fragments) THEN st
    ELSE RenderFragments(RenderFragment(st, fragments[st.j], x, maxWidth, lineHeight),
                         fragments, x, maxWidth, lineHeight)

\* renderFormattedText returns [c, y]
FormattedResult(st, lineHeight) == [c |-> st.c, y |-> st.currentY + lineHeight]

renderFormattedText(c, fragments, x, y, maxWidth, lineHeight) ==
    FormattedResult(RenderFragments([c |-> setTextFont(c, 18), currentX |-> x,
                                     currentY |-> y, j |-> 1, k |-> 1],
                                    fragments, x, maxWidth, lineHeight),
                    lineHeight)

\* the state of a loop over matches or items: the converter, the cursor and
\* the 1-based index of the item the loop is at; r is what the body returned
At(r, k) == [c |-> r.c, y |-> r.y, k |-> k]

\* regexp FindAll for a pattern of the shape open.*?close, or an alternation
\* of such: the leftmost complete blocks, not overlapping; closers maps an
\* opening tag to its closing tag and any other tag to ""
RECURSIVE FindAll(_, _, _)
FindAll(h, closers, i) ==
    IF i > Len(h) THEN <<>>
    ELSE IF IsTag(h[i]) /\ closers[h[i]] # ""
         THEN LET b == IndexFrom(h, i + 1, LAMBDA t : t = closers[h[i]])
              IN  IF b # 0
                  THEN << [from |-> i, to |-> b] >> \o FindAll(h, closers, b + 1)
                  ELSE FindAll(h, closers, i + 1)
         ELSE FindAll(h, closers, i + 1)

\* the text between the tags of a match
Inner(h, m) == SubSeq(h, m.from + 1, m.to - 1)

ParagraphClosers == [t \in Tags |-> IF t = "<p>" THEN "</p>" ELSE ""]
ListItemClosers == [t \in Tags |-> IF t = "<li>" THEN "</li>" ELSE ""]
CodeClosers == [t \in Tags |-> IF t \in CodeOpenTags THEN CodeCloseTag ELSE ""]
BlockquoteClosers == [t \in Tags |-> IF t = "<blockquote>" THEN "</blockquote>" ELSE ""]
\* (<blockquote>.*?</blockquote>|<pre><code.*?</code></pre>|<p>.*?</p>|<ul>.*?</ul>|<ol>.*?</ol>)
MixedClosers ==
    [t \in Tags |->
        CASE t = "<blockquote>" -> "</blockquote>"
          [] t \in CodeOpenTags -> CodeCloseTag
          [] t = "<p>" -> "</p>"
          [] t = "<ul>" -> "</ul>"
          [] t = "<ol>" -> "</ol>"
          [] OTHER -> ""]

\* image files by the src of the tag (part_010): whether os.Stat succeeds,
\* the upper-cased extension, whether the image loads, its native size
ImageFiles(src) ==
    CASE src = "a.png" -> [exists |-> TRUE, ext |-> "PNG", loads |-> TRUE,
                           w |-> 400 * mm, h |-> 300 * mm]
      [] src = "w.png" -> [exists |-> TRUE, ext |-> "PNG", loads |-> TRUE,
                           w |-> 400 * mm, h |-> 100 * mm]
      [] src = "a.bmp" -> [exists |-> TRUE, ext |-> "BMP", loads |-> TRUE,
                           w |-> 400 * mm, h |-> 300 * mm]
      [] src = "bad.png" -> [exists |-> TRUE, ext |-> "PNG", loads |-> FALSE, w |-> 0, h |-> 0]
      [] OTHER -> [exists |-> FALSE, ext |-> "PNG", loads |-> FALSE, w |-> 0, h |-> 0]

ImgSrc(t) ==
    CASE t = "<img src=\"a.png\">" -> "a.png"
      [] t = "<img src=\"none.png\">" -> "none.png"
      [] t = "<img src=\"a.bmp\">" -> "a.bmp"
      [] t = "<img src=\"bad.png\">" -> "bad.png"
      [] t = "<img src=\"w.png\">" -> "w.png"
      [] OTHER -> ""

ImageWarning(c, kind, path) ==
    [kind |-> kind, slide |-> c.currentSlideNumber, path |-> path]

Image(x, y, w, h) == [op |-> "Image", x |-> x, y |-> y, w |-> w, h |-> h]

\* float64 values of the image geometry are exact fractions n/d with d > 0
Rat(n, d) == [n |-> n, d |-> d]
RatLe(a, b) == a.n * b.d <= b.n * a.d
RatEq(a, b) == a.n * b.d = b.n * a.d
RatMin(a, b) == IF RatLe(a, b) THEN a ELSE b
RatTimes(k, a) == Rat(k * a.n, a.d)
RatPlus(k, a) == Rat(k * a.d + a.n, a.d)
RatFloor(a) == a.n \div a.d

imgContentX == 20 * mm
imgContentWidth == 257 * mm
imgContentBottom == 190 * mm

\* the scale that ignores the height left on the slide
ImageScale_WidthOnly(imgW, imgH, maxH) == Rat(imgContentWidth, imgW)

\* scale := math.Min(imgContentWidth/imgW, maxH/imgH)
ImageScale(imgW, imgH, maxH) == RatMin(Rat(imgContentWidth, imgW), Rat(maxH, imgH))

\* the draw size [w, h] of an image of native size imgW x imgH
ImageSize(imgW, imgH, maxH) ==
    IF imgW > 0 /\ imgH > 0
    THEN [w |-> RatTimes(imgW, ImageScale(imgW, imgH, maxH)),
          h |-> RatTimes(imgH, ImageScale(imgW, imgH, maxH))]
    ELSE [w |-> Rat(imgContentWidth, 1), h |-> Rat(0, 1)]

\* x := imgContentX + (imgContentWidth-w)/2
ImageX(w) == RatPlus(imgContentX, Rat(imgContentWidth * w.d - w.n, 2 * w.d))

\* an image renderer that returns the height placed instead of the cursor
DrawImage_HeightOnly(r, size) ==
    [c |-> Draw(r.c, Image(ImageX(size.w), r.y, size.w, size.h)),
     y |-> RatFloor(size.h) + 5 * mm]

\* an image renderer that leaves no gap below the image
DrawImage_NoGap(r, size) ==
    [c |-> Draw(r.c, Image(ImageX(size.w), r.y, size.w, size.h)),
     y |-> r.y + RatFloor(size.h)]

\* ImageOptions at the fitted place, and the cursor y + h + 5 (rounded down
\* to the length unit); r = [c, y]
DrawImage(r, size) ==
    [c |-> Draw(r.c, Image(ImageX(size.w), r.y, size.w, size.h)),
     y |-> r.y + RatFloor(size.h) + 5 * mm]

\* RegisterImageOptions on a file that does not load puts the document in
\* its error state
RegisterFailed(c) == [c EXCEPT !.err = TRUE]

\* c.pdf.ClearError()
ClearError(c) == [c EXCEPT !.err = FALSE]

\* c.pdf.OutputFileAndClose: the error of the document, if any
OutputFileAndClose(c) == IF c.err THEN "error" ELSE "nil"

\* renderImageFile that leaves the error of a failed load in place
PlaceImage_NoClearError(c, f, imagePath, y) ==
    IF ~f.exists THEN [c |-> Warn(c, ImageWarning(c, "image not found", imagePath)), y |-> y]
    ELSE IF f.ext \notin {"JPG", "JPEG", "PNG", "GIF"}
    THEN [c |-> Warn(c, ImageWarning(c, "unsupported image format", imagePath)), y |-> y]
    ELSE IF ~f.loads
    THEN [c |-> Warn(RegisterFailed(c), ImageWarning(c, "failed to load image", imagePath)),
          y |-> y]
    ELSE IF imgContentBottom - y <= 5 * mm THEN [c |-> c, y |-> y]
    ELSE DrawImage([c |-> c, y |-> y], ImageSize(f.w, f.h, imgContentBottom - y))

\* renderImageFile on a path for which os.Stat, the extension and
\* RegisterImageOptions give f; returns [c, y]
PlaceImage(c, f, imagePath, y) ==
    IF ~f.exists THEN [c |-> Warn(c, ImageWarning(c, "image not found", imagePath)), y |-> y]
    ELSE IF f.ext \notin {"JPG", "JPEG", "PNG", "GIF"}
    THEN [c |-> Warn(c, ImageWarning(c, "unsupported image format", imagePath)), y |-> y]
    ELSE IF ~f.loads
    THEN [c |-> ClearError(Warn(RegisterFailed(c),
                                ImageWarning(c, "failed to load image", imagePath))),
          y |-> y]
    ELSE IF imgContentBottom - y <= 5 * mm THEN [c |-> c, y |-> y]
    ELSE DrawImage([c |-> c, y |-> y], ImageSize(f.w, f.h, imgContentBottom - y))

\* renderImageFile returns [c, y]
renderImageFile(c, imagePath, y) == PlaceImage(c, ImageFiles(imagePath), imagePath, y)

\* renderHTMLImage returns [c, y]
renderHTMLImage(c, imgHTML, y) ==
    LET k == IndexFrom(imgHTML, 1, LAMBDA t : ImgSrc(t) # "")
    IN  IF k = 0 THEN [c |-> c, y |-> y]
        ELSE renderImageFile(c, ImgSrc(imgHTML[k]), y)

\* the body of the loop of renderHTMLParagraphs for one match; r = [c, y, k]
RenderParagraph(r, h, m) ==
    LET paragraphHTML == TrimSpace(Inner(h, m))
    IN  IF paragraphHTML = <<>> THEN [c |-> r.c, y |-> r.y]
        ELSE IF Head(paragraphHTML) \in ImgTags THEN renderHTMLImage(r.c, paragraphHTML, r.y)
        ELSE LET fragments == parseHTMLFormatting(paragraphHTML)
                 r1 == renderFormattedText(SetTextColor(r.c, "SlideText"), fragments,
                                           20 * mm, r.y, 257 * mm, 11 * mm)
             IN  [r1 EXCEPT !.y = @ + 5 * mm]

RECURSIVE RenderParagraphs(_, _, _)
RenderParagraphs(r, h, ms) ==
    IF r.k > Len(ms) THEN [c |-> r.c, y |-> r.y]
    ELSE RenderParagraphs(At(RenderParagraph(r, h, ms[r.k]), r.k + 1), h, ms)

\* renderHTMLParagraphs returns [c, y]
renderHTMLParagraphs(c, h, y) ==
    RenderParagraphs([c |-> c, y |-> y, k |-> 1], h, FindAll(h, ParagraphClosers, 1))

\* the body of the loop of renderHTMLList for one match; r = [c, y, k]
RenderListItem(r, h, m) ==
    LET itemHTML == TrimSpace(Inner(h, m))
        fragments == parseHTMLFormatting(itemHTML)
        c1 == Draw(setTextFont(SetTextColor(r.c, "SlideText"), 18),
                   Cell(25 * mm, r.y, translator(<<"*", " ">>)))
        r1 == renderFormattedText(c1, fragments, 30 * mm, r.y, 247 * mm, 9 * mm)
    IN  [r1 EXCEPT !.y = @ + 3 * mm]

RECURSIVE RenderListItems(_, _, _)
RenderListItems(r, h, ms) ==
    IF r.k > Len(ms) THEN [c |-> r.c, y |-> r.y + 6 * mm]
    ELSE RenderListItems(At(RenderListItem(r, h, ms[r.k]), r.k + 1), h, ms)

\* renderHTMLList returns [c, y]
renderHTMLList(c, h, y) ==
    RenderListItems([c |-> c, y |-> y, k |-> 1], h, FindAll(h, ListItemClosers, 1))

\* renderHTMLCode returns [c, y]
renderHTMLCode(c, h, err, y) ==
    LET ms == FindAll(h, CodeClosers, 1)
        k == IndexFrom(h, 1, LAMBDA t : CodeClass(t) # "")
        language == IF k # 0 THEN CodeClass(h[k]) ELSE "go"
    IN  IF ms = <<>> THEN [c |-> c, y |-> y]
        ELSE HighlightOrPlain(c, decodeHTMLEntities(TrimSpace(Inner(h, ms[1]))),
                              language, err, y)

\* the height estimation loop of renderHTMLBlockquote over the words of one
\* paragraph: the number of lines; st = [lines, lineWidth]
RECURSIVE CountLines(_, _, _, _)
CountLines(st, words, k, textWidth) ==
    IF k > Len(words) THEN st.lines
    ELSE LET ww == GetStringWidth(<<"Helvetica", 18>>, translator(words[k] \o <<" ">>))
         IN  IF st.lineWidth + ww > textWidth /\ st.lineWidth > 0
             THEN CountLines([lines |-> st.lines + 1, lineWidth |-> ww], words, k + 1, textWidth)
             ELSE CountLines([st EXCEPT !.lineWidth = @ + ww], words, k + 1, textWidth)

\* totalHeight of renderHTMLBlockquote
RECURSIVE BlockquoteHeight(_, _, _)
BlockquoteHeight(paragraphsHTML, i, total) ==
    IF i > Len(paragraphsHTML) THEN total
    ELSE LET words == Fields(stripHTMLTags(paragraphsHTML[i]))
             n == CountLines([lines |-> 1, lineWidth |-> 0], words, 1, 249 * mm)
             t1 == total + n * 11 * mm
         IN  BlockquoteHeight(paragraphsHTML, i + 1,
                              IF i < Len(paragraphsHTML) THEN t1 + 3 * mm ELSE t1)

\* the text loop of renderHTMLBlockquote; r = [c, y] with y the textY
RECURSIVE BlockquoteText(_, _, _)
BlockquoteText(r, paragraphsHTML, i) ==
    IF i > Len(paragraphsHTML) THEN r
    ELSE LET r1 == renderFormattedText(SetTextColor(r.c, "SlideText"),
                                       parseHTMLFormatting(paragraphsHTML[i]),
                                       28 * mm, r.y, 249 * mm, 11 * mm)
         IN  BlockquoteText(IF i < Len(paragraphsHTML) THEN [r1 EXCEPT !.y = @ + 3 * mm] ELSE r1,
                            paragraphsHTML, i + 1)

\* the paragraphs of the first blockquote of h: the trimmed contents of
\* its <p> elements that are not empty, or its whole stripped text when it
\* has no <p> element
BlockquoteParagraphs(h) ==
    LET ms == FindAll(h, BlockquoteClosers, 1)
        inner == TrimSpace(Inner(h, ms[1]))
        paraMatches == FindAll(inner, ParagraphClosers, 1)
        stripped == TrimSpace(stripHTMLTags(inner))
        trimmed == [k \in 1..Len(paraMatches) |-> TrimSpace(Inner(inner, paraMatches[k]))]
    IN  IF ms = <<>> THEN <<>>
        ELSE IF Len(paraMatches) = 0
        THEN (IF stripped # <<>> THEN <<stripped>> ELSE <<>>)
        ELSE SelectSeq(trimmed, LAMBDA t : t # <<>>)

\* a blockquote renderer that draws the box of a blockquote without
\* paragraphs
renderHTMLBlockquote_EmptyBox(c, h, y) ==
    LET ms == FindAll(h, BlockquoteClosers, 1)
        paragraphsHTML == BlockquoteParagraphs(h)
        totalHeight == BlockquoteHeight(paragraphsHTML, 1, 4 * mm * 2)
        c1 == Draw(Draw(setTextFont(c, 18), Rect(20 * mm, y, 257 * mm, totalHeight)),
                   Rect(20 * mm, y, 4 * mm, totalHeight))
    IN  IF ms = <<>> THEN [c |-> c, y |-> y]
        ELSE [c |-> BlockquoteText([c |-> c1, y |-> y + 4 * mm], paragraphsHTML, 1).c,
              y |-> y + totalHeight + 5 * mm]

\* renderHTMLBlockquote returns [c, y]
renderHTMLBlockquote(c, h, y) ==
    LET ms == FindAll(h, BlockquoteClosers, 1)
        paragraphsHTML == BlockquoteParagraphs(h)
        totalHeight == BlockquoteHeight(paragraphsHTML, 1, 4 * mm * 2)
        c1 == Draw(Draw(setTextFont(c, 18), Rect(20 * mm, y, 257 * mm, totalHeight)),
                   Rect(20 * mm, y, 4 * mm, totalHeight))
    IN  IF ms = <<>> THEN [c |-> c, y |-> y]
        ELSE IF paragraphsHTML = <<>> THEN [c |-> c, y |-> y]
        ELSE [c |-> BlockquoteText([c |-> c1, y |-> y + 4 * mm], paragraphsHTML, 1).c,
              y |-> y + totalHeight + 5 * mm]

\* renderHTMLPlainText returns [c, y]
renderHTMLPlainText(c, h, y) ==
    LET text == TrimSpace(stripHTMLTags(h))
    IN  IF text = <<>> THEN [c |-> c, y |-> y]
        ELSE [c |-> Draw(setTextFont(c, 18), MultiCell(20 * mm, y, translator(text))),
              y |-> y + 12 * mm]

\* a renderer is entered: fn is called at cursor y with the part from..to of
\* the fragment
Enter(c, fn, m, y) ==
    [c EXCEPT !.calls = Append(@, [fn |-> fn, from |-> m.from, to |-> m.to, y |-> y])]

\* the renderer renderHTMLMixed selects for a match by its prefix
MixedRenderer(match) ==
    CASE Head(match) = "<blockquote>" -> "renderHTMLBlockquote"
      [] Head(match) \in CodeOpenTags -> "renderHTMLCode"
      [] Head(match) = "<p>" -> "renderHTMLParagraphs"
      [] Head(match) \in {"<ul>", "<ol>"} -> "renderHTMLList"
      [] OTHER -> ""

\* call the named renderer on the part m of the fragment h
Dispatch(c, fn, h, m, err, y) ==
    LET part == SubSeq(h, m.from, m.to)
        c1 == Enter(c, fn, m, y)
    IN  CASE fn = "renderHTMLBlockquote" -> renderHTMLBlockquote(c1, part, y)
          [] fn = "renderHTMLCode" -> renderHTMLCode(c1, part, err, y)
          [] fn = "renderHTMLParagraphs" -> renderHTMLParagraphs(c1, part, y)
          [] fn = "renderHTMLList" -> renderHTMLList(c1, part, y)
          [] fn = "renderHTMLImage" -> renderHTMLImage(c1, part, y)
          [] fn = "renderHTMLPlainText" -> renderHTMLPlainText(c1, part, y)
          [] OTHER -> [c |-> c, y |-> y]

\* the loop of renderHTMLMixed; r = [c, y, k]
RECURSIVE MixedLoop(_, _, _, _)
MixedLoop(r, h, ms, err) ==
    IF r.k > Len(ms) THEN [c |-> r.c, y |-> r.y]
    ELSE MixedLoop(At(Dispatch(r.c, MixedRenderer(SubSeq(h, ms[r.k].from, ms[r.k].to)),
                               h, ms[r.k], err, r.y),
                      r.k + 1),
                   h, ms, err)

\* a dispatch by block type instead of by position: every blockquote first,
\* then every code block, every paragraph and every list
renderHTMLMixed_ByType(c, h, err, y) ==
    LET ms == FindAll(h, MixedClosers, 1)
        of(fn) == SelectSeq(ms, LAMBDA m : MixedRenderer(SubSeq(h, m.from, m.to)) = fn)
    IN  MixedLoop([c |-> c, y |-> y, k |-> 1], h,
                  of("renderHTMLBlockquote") \o of("renderHTMLCode")
                  \o of("renderHTMLParagraphs") \o of("renderHTMLList"), err)

\* renderHTMLMixed returns [c, y]
renderHTMLMixed(c, h, err, y) ==
    MixedLoop([c |-> c, y |-> y, k |-> 1], h, FindAll(h, MixedClosers, 1), err)

hasCode(h) == Contains(h, LAMBDA t : t \in CodeOpenTags)
hasLists(h) == Contains(h, LAMBDA t : t \in {"<ul>", "<ol>"})
hasParagraphs(h) == Contains(h, LAMBDA t : t = "<p>")
hasBlockquote(h) == Contains(h, LAMBDA t : t = "<blockquote>")

typeCount(h) ==
    (IF hasCode(h) THEN 1 ELSE 0) + (IF hasLists(h) THEN 1 ELSE 0)
    + (IF hasParagraphs(h) THEN 1 ELSE 0) + (IF hasBlockquote(h) THEN 1 ELSE 0)

\* the renderer renderHTML selects for a fragment with one block type at
\* most, in the order of its tests
SingleRenderer(h) ==
    IF hasBlockquote(h) THEN "renderHTMLBlockquote"
    ELSE IF hasCode(h) THEN "renderHTMLCode"
    ELSE IF hasLists(h) THEN "renderHTMLList"
    ELSE IF hasParagraphs(h) THEN "renderHTMLParagraphs"
    ELSE IF Contains(h, LAMBDA t : t \in ImgTags) THEN "renderHTMLImage"
    ELSE "renderHTMLPlainText"

\* renderHTML returns [c, y]
renderHTML(c, h, err, y) ==
    IF typeCount(h) > 1 THEN renderHTMLMixed(c, h, err, y)
    ELSE Dispatch(c, SingleRenderer(h), h, [from |-> 1, to |-> Len(h)], err, y)

-----------------------------------------------------------------------------
(* Specification of HTML rendering: the fragment is a concatenation of    *)
(* blocks, the lexer outcome and the quiet flag are drawn; one action is  *)
(* renderHTML.                                                            *)

HTMLBlocks ==
    { <<"<p>", "a", "</p>">>,
      <<"<p>", "b", " ", "a">>,
      <<"<ul>", "<li>", "a", "</li>", "</ul>">>,
      <<"<ol>", "<li>", "b", "</li>", "<li>", "a", "</li>", "</ol>">>,
      <<"<pre><code class=\"language-go\">", ZWNJ, "/", "/", "x", NL, "a", NL, CodeCloseTag>>,
      <<"<pre><code>", "a", CodeCloseTag>>,
      <<"<blockquote>", "<p>", "b", "</p>", "</blockquote>">>,
      <<"x", " ">> }

InitHTML ==
    /\ \E bs \in SeqsUpTo(HTMLBlocks, MaxBlocks) : html = Concat(bs)
    /\ pcHTML = "start"
    /\ \E q \in BOOLEAN : conv = NewConv(q, 2)
    /\ lexErr \in BOOLEAN
    /\ yIn = 45 * mm
    /\ yOut = 0
    /\ IdleSplit /\ IdleCode /\ IdleSlide /\ IdlePre /\ IdleFns

RenderHTML ==
    /\ pcHTML = "start"
    /\ \E r \in {renderHTML(conv, html, lexErr, yIn)} :
           conv' = r.c /\ yOut' = r.y
    /\ pcHTML' = "done"
    /\ UNCHANGED <<html, lexErr, yIn, splitVars, codeVars, slideVars, preVars, parseVars,
                   decodeVars, imageVars, optVars, textVars>>

NextHTML == RenderHTML

SpecHTML == InitHTML /\ [][NextHTML]_vars

\* the code lines and the texts of their cells in the pdf log
CodeCellTexts ==
    LET ls == SelectSeq(conv.pdf, LAMBDA o : o.op = "CodeLine")
    IN  UNION {{ls[k].cells[j].txt : j \in 1..Len(ls[k].cells)} : k \in 1..Len(ls)}

\* C6 as stated: renderHTMLCode removes every U+200C from the extracted code
\* text before it is tokenized and drawn: no text handed to highlightCode and
\* no text cell of a code block holds U+200C.
C6_MarkerStripped ==
    pcHTML = "done" =>
        /\ \A k \in 1..Len(conv.lexed) : Count(conv.lexed[k], ZWNJ) = 0
        /\ \A txt \in CodeCellTexts : Count(txt, ZWNJ) = 0

\* the renderer of the block that a tag opens and the tag that closes it
BlockRenderer(t) ==
    CASE t = "<blockquote>" -> "renderHTMLBlockquote"
      [] t \in CodeOpenTags -> "renderHTMLCode"
      [] t = "<p>" -> "renderHTMLParagraphs"
      [] t \in {"<ul>", "<ol>"} -> "renderHTMLList"
      [] OTHER -> ""
BlockCloser(t) ==
    CASE t = "<blockquote>" -> "</blockquote>"
      [] t \in CodeOpenTags -> CodeCloseTag
      [] t = "<p>" -> "</p>"
      [] t = "<ul>" -> "</ul>"
      [] t = "<ol>" -> "</ol>"
      [] OTHER -> ""

BlockTypes(h) == {BlockRenderer(h[i]) : i \in 1..Len(h)} \ {""}

\* a block opens at i and its closing tag follows
CompleteBlockAt(h, i) ==
    /\ BlockRenderer(h[i]) # ""
    /\ \E j \in (i + 1)..Len(h) : h[j] = BlockCloser(h[i])

\* a paragraph block that holds text
TextParagraph(h, call) ==
    /\ call.fn = "renderHTMLParagraphs"
    /\ \E j \in (call.from + 1)..(call.to - 1) : ~IsTag(h[j]) /\ ~IsSpace(h[j])

\* C7: on a fragment with more than one block type, the renderer calls are
\* exactly the complete blocks of the fragment in the left-to-right order of
\* their start positions: each call is the renderer of the tag at its start
\* and ends at the first closing tag, the calls do not overlap and their
\* start positions increase, every complete block lies in a call, and each
\* call starts at the cursor the call before it returned; a paragraph with
\* text that precedes a list has advanced the cursor when the list is entered.
C7_DispatchInOrder ==
    (pcHTML = "done" /\ Cardinality(BlockTypes(html)) > 1) =>
        LET calls == conv.calls
        IN  /\ \A k \in 1..Len(calls) :
                   /\ 1 <= calls[k].from /\ calls[k].from < calls[k].to
                   /\ calls[k].to <= Len(html)
                   /\ calls[k].fn # ""
                   /\ calls[k].fn = BlockRenderer(html[calls[k].from])
                   /\ html[calls[k].to] = BlockCloser(html[calls[k].from])
                   /\ \A j \in (calls[k].from + 1)..(calls[k].to - 1) :
                          html[j] # BlockCloser(html[calls[k].from])
            /\ \A k \in 1..(Len(calls) - 1) :
                   /\ calls[k].to < calls[k + 1].from
                   /\ calls[k].y <= calls[k + 1].y
                   /\ calls[k + 1].y =
                          Dispatch(NewConv(TRUE, 0), calls[k].fn, html, calls[k], lexErr,
                                   calls[k].y).y
                   /\ (TextParagraph(html, calls[k]) /\ calls[k + 1].fn = "renderHTMLList")
                          => calls[k].y < calls[k + 1].y
            /\ \A i \in 1..Len(html) :
                   CompleteBlockAt(html, i) =>
                       \E k \in 1..Len(calls) : calls[k].from <= i /\ i <= calls[k].to
            /\ Len(calls) > 0 => calls[1].y = yIn

C7_Witness ==
    /\ pcHTML = "done"
    /\ Cardinality(BlockTypes(html)) > 1
    /\ Len(conv.calls) = 3
    /\ conv.calls[1].fn = "renderHTMLParagraphs"
    /\ conv.calls[2].fn = "renderHTMLList"
    /\ conv.calls[3].fn = "renderHTMLCode"
    /\ conv.calls[1].y < conv.calls[2].y
    /\ conv.calls[2].y < conv.calls[3].y

-----------------------------------------------------------------------------
(* Slide elements and the slide composer (part_011, render_code.go) *)

\* FENCE stands for the three backticks of a code fence, one element of a text
Fence == "FENCE"
WordChars == {"a", "b", "g", "o", "x", "z", "W"}

\* the language tag of a fence as a lexer name
LanguageName(w) ==
    CASE w = <<>> -> "go"
      [] w = <<"g", "o">> -> "go"
      [] OTHER -> "unknown"

\* the first match, at or after i, of the pattern of renderMarkdownCodeBlock:
\* a fence, word characters (the language), white space that holds a newline,
\* the shortest text up to the next fence
RECURSIVE FindFencedBlock(_, _)
FindFencedBlock(content, i) ==
    LET p == IndexFrom(content, i, LAMBDA t : t = Fence)
        q1 == LET k == IndexFrom(content, p + 1, LAMBDA t : t \notin WordChars)
              IN  IF k = 0 THEN Len(content) + 1 ELSE k
        q2 == LET k == IndexFrom(content, q1, LAMBDA t : ~IsSpace(t))
              IN  IF k = 0 THEN Len(content) + 1 ELSE k
        hasNL == \E k \in q1..(q2 - 1) : content[k] = NL
        close == IndexFrom(content, q2, LAMBDA t : t = Fence)
    IN  IF p = 0 THEN [found |-> FALSE, lang |-> <<>>, code |-> <<>>]
        ELSE IF hasNL /\ close # 0
        THEN [found |-> TRUE, lang |-> SubSeq(content, p + 1, q1 - 1),
              code |-> SubSeq(content, q2, close - 1)]
        ELSE FindFencedBlock(content, p + 1)

\* renderMarkdownCodeBlock returns [c, y]
renderMarkdownCodeBlock(c, content, err, y) ==
    LET match == FindFencedBlock(content, 1)
    IN  IF ~match.found
        THEN [c |-> Draw(setTextFont(c, 21), MultiCell(20 * mm, y, translator(content))),
              y |-> y + 15 * mm]
        ELSE HighlightOrPlain(c, TrimSpace(match.code), LanguageName(match.lang), err, y)

\* renderText returns [c, y]; textLines is text.Lines
renderText(c, textLines, err, y) ==
    LET content == Join(textLines, NL)
    IN  IF Contains(content, LAMBDA t : t = Fence)
        THEN renderMarkdownCodeBlock(c, content, err, y)
        ELSE [c |-> Draw(setTextFont(c, 21), MultiCell(20 * mm, y,
                                                             translator(Join(textLines, " ")))),
              y |-> y + 15 * mm]

Bullet == <<"*", " ">>

\* the loop of renderList; r = [c, y, k]
RECURSIVE ListLoop(_, _)
ListLoop(r, bullets) ==
    IF r.k > Len(bullets) THEN [c |-> r.c, y |-> r.y + 6 * mm]
    ELSE ListLoop([c |-> Draw(r.c, MultiCell(25 * mm, r.y,
                                             translator(Bullet \o bullets[r.k]))),
                   y |-> r.y + 12 * mm, k |-> r.k + 1], bullets)

\* renderList returns [c, y]
renderList(c, bullets, y) ==
    ListLoop([c |-> setTextFont(c, 18), y |-> y, k |-> 1], bullets)

\* renderLink returns [c, y]; url is "" for a nil URL
renderLink(c, linkLabel, url, y) ==
    LET label == IF linkLabel = <<>> THEN <<url>> ELSE linkLabel
        c1 == SetTextColor(setTextFont(c, 18), "LinkColor")
        translatedLabel == translator(label)
        labelWidth == GetStringWidth(c1.font, translatedLabel)
        c2 == Draw(Draw(c1, CellFormat(20 * mm, y, labelWidth, translatedLabel, url)),
                   Line(20 * mm, y + 10 * mm, 20 * mm + labelWidth, y + 10 * mm))
    IN  [c |-> SetTextColor(c2, "SlideText"), y |-> y + 15 * mm]

\* a content element: kind and, by kind, text (the lines of a Text, the
\* bullets of a List, the one-element list of the raw text of a Code, of the
\* fragment of an HTML, of the label of a Link) and arg (the file extension
\* of a Code, the URL of a Link)
Elem(kind, text, arg) == [kind |-> kind, text |-> text, arg |-> arg]

\* renderElement returns [c, y]
renderElement(c, elem, err, y) ==
    CASE elem.kind = "Text" -> renderText(c, elem.text, err, y)
      [] elem.kind = "List" -> renderList(c, elem.text, y)
      [] elem.kind = "Code" -> renderCode(c, elem.text[1], elem.arg, err, y)
      [] elem.kind = "HTML" -> renderHTML(c, elem.text[1], err, y)
      [] elem.kind = "Link" -> renderLink(c, elem.text[1], elem.arg, y)
      [] OTHER -> [c |-> c, y |-> y]

-----------------------------------------------------------------------------
(* Specification of the slide composer: the elements of one section, the  *)
(* quiet flag and the lexer outcome are drawn; renderSlide runs one loop  *)
(* iteration per step.                                                    *)

\* a code text of 22 lines
BigCode == Join([i \in 1..22 |-> <<"a">>], NL)

SlideElems ==
    { Elem("Text", << <<"a", "b">> >>, ""),
      Elem("Text", << <<Fence, "g", "o">>, <<"a">>, <<Fence>> >>, ""),
      Elem("List", << <<"a">>, <<"b">> >>, ""),
      Elem("Code", << BigCode >>, "go"),
      Elem("HTML", << <<"<p>", "a", "</p>">> >>, ""),
      Elem("Link", << <<"a">> >>, "U"),
      Elem("Image", <<>>, "") }

InitSlide ==
    /\ section \in SeqsUpTo(SlideElems, MaxElems)
    /\ elemIdx = 0
    /\ ySlide = 0
    /\ pcSlide = "Start"
    /\ rendered = <<>>
    /\ \E q \in BOOLEAN : conv = NewConv(q, 2)
    /\ lexErr \in BOOLEAN
    /\ yIn = 0 /\ yOut = 0
    /\ IdleSplit /\ IdleCode /\ IdleHTML /\ IdlePre /\ IdleFns

AddPage == [op |-> "AddPage"]
SlideTitle == <<"T">>

\* renderSlide up to the loop: page, background, title, title line
SlideHead(c) ==
    LET c1 == Draw(Draw(c, AddPage), Rect(0, 0, 297 * mm, 210 * mm))
        c2 == Draw(setTextFont(SetTextColor(c1, "SlideTitle"), 29),
                   MultiCell(20 * mm, 15 * mm, translator(SlideTitle)))
        c3 == Draw(c2, Line(20 * mm, 36 * mm, 277 * mm, 36 * mm))
    IN  SetTextColor(c3, "SlideText")

BeginSlide ==
    /\ pcSlide = "Start"
    /\ conv' = SlideHead(conv)
    /\ ySlide' = 45 * mm
    /\ IF section = <<>>
       THEN pcSlide' = "Done" /\ elemIdx' = 0
       ELSE pcSlide' = "Rendering" /\ elemIdx' = 1
    /\ UNCHANGED <<section, rendered, splitVars, codeVars, callVars, htmlVars, preVars,
                   parseVars, decodeVars, imageVars, optVars, textVars>>

OverflowWarning(c, y) == [kind |-> "overflow", slide |-> c.currentSlideNumber, y |-> y]

\* a bottom boundary at the page height instead of the content area
Overflows_PageHeight(y) == y > 210 * mm

\* if y > 190
Overflows(y) == y > 190 * mm

\* a loop body that reports the overflow and goes on
RenderStep_NoBreak ==
    /\ pcSlide = "Rendering"
    /\ \E r \in {renderElement(conv, section[elemIdx], lexErr, ySlide)} :
           /\ ySlide' = r.y
           /\ rendered' = Append(rendered, elemIdx)
           /\ conv' = IF Overflows(r.y) THEN Warn(r.c, OverflowWarning(r.c, r.y)) ELSE r.c
           /\ IF elemIdx = Len(section)
              THEN pcSlide' = (IF Overflows(r.y) THEN "Overflow" ELSE "Done")
                   /\ elemIdx' = elemIdx
              ELSE pcSlide' = "Rendering" /\ elemIdx' = elemIdx + 1
    /\ UNCHANGED <<section, splitVars, codeVars, callVars, htmlVars, preVars, parseVars,
                   decodeVars, imageVars, optVars, textVars>>

\* one iteration of the loop of renderSlide
RenderStep ==
    /\ pcSlide = "Rendering"
    /\ \E r \in {renderElement(conv, section[elemIdx], lexErr, ySlide)} :
           /\ ySlide' = r.y
           /\ rendered' = Append(rendered, elemIdx)
           /\ IF Overflows(r.y)
              THEN /\ conv' = Warn(r.c, OverflowWarning(r.c, r.y))
                   /\ pcSlide' = "Overflow"
                   /\ elemIdx' = elemIdx
              ELSE /\ conv' = r.c
                   /\ IF elemIdx = Len(section)
                      THEN pcSlide' = "Done" /\ elemIdx' = elemIdx
                      ELSE pcSlide' = "Rendering" /\ elemIdx' = elemIdx + 1
    /\ UNCHANGED <<section, splitVars, codeVars, callVars, htmlVars, preVars, parseVars,
                   decodeVars, imageVars, optVars, textVars>>

NextSlide == BeginSlide \/ RenderStep

SpecSlide == InitSlide /\ [][NextSlide]_vars

\* the elements r.k..j rendered one after the other from the converter r.c
\* and the cursor r.y, with no boundary check
RECURSIVE RenderPrefix(_, _, _, _)
RenderPrefix(r, elems, j, err) ==
    IF r.k > j THEN r
    ELSE LET n == renderElement(r.c, elems[r.k], err, r.y)
         IN  RenderPrefix([c |-> n.c, y |-> n.y, k |-> r.k + 1], elems, j, err)

\* the first element at or after r.k whose rendering takes the cursor past
\* 190, 0 if none
RECURSIVE FirstOverflowFrom(_, _, _)
FirstOverflowFrom(r, elems, err) ==
    IF r.k > Len(elems) THEN 0
    ELSE LET n == renderElement(r.c, elems[r.k], err, r.y)
         IN  IF n.y > 190 * mm THEN r.k
             ELSE FirstOverflowFrom([c |-> n.c, y |-> n.y, k |-> r.k + 1], elems, err)

FirstOverflow(elems, err) ==
    FirstOverflowFrom([c |-> NewConv(TRUE, 0), y |-> 45 * mm, k |-> 1], elems, err)

SlideEnded == pcSlide \in {"Done", "Overflow"}

\* the drawing operations of the slide head followed by those of elements 1..j
DrawnUpTo(j) ==
    RenderPrefix([c |-> SlideHead(NewConv(TRUE, 0)), y |-> 45 * mm, k |-> 1],
                 section, j, lexErr).c.pdf

\* C1 as stated: with k the first element that takes the cursor past 190,
\* exactly the elements before k are drawn
C1_Original ==
    SlideEnded =>
        LET k == FirstOverflow(section, lexErr)
        IN  k # 0 => /\ rendered = [i \in 1..(k - 1) |-> i]
                     /\ conv.pdf = DrawnUpTo(k - 1)

\* C1 (amended): with k the first element whose rendering takes the cursor
\* past 190, the elements drawn on the slide are exactly the elements up to
\* and including k; no element after k is drawn.  Without such an element
\* every element is drawn.
C1_DrawnThroughOverflow ==
    SlideEnded =>
        LET k == FirstOverflow(section, lexErr)
            last == IF k # 0 THEN k ELSE Len(section)
        IN  /\ rendered = [i \in 1..last |-> i]
            /\ conv.pdf = DrawnUpTo(last)

C1_Witness ==
    /\ pcSlide = "Overflow"
    /\ Len(section) = 3
    /\ FirstOverflow(section, lexErr) = 2
    /\ section[3].kind = "Text"
    /\ rendered = <<1, 2>>

OverflowDiagnostics == SelectSeq(conv.stderr, LAMBDA d : d.kind = "overflow")

C2_States ==
    /\ pcSlide \in {"Start", "Rendering", "Done", "Overflow"}
    /\ pcSlide = "Start" => rendered = <<>>
    /\ pcSlide = "Rendering" =>
           /\ elemIdx \in 1..Len(section)
           /\ rendered = [i \in 1..(elemIdx - 1) |-> i]
    /\ pcSlide = "Overflow" =>
           /\ ySlide > 190 * mm
           /\ rendered = [i \in 1..elemIdx |-> i]
           /\ OverflowDiagnostics =
                  IF conv.quiet THEN <<>>
                  ELSE << [kind |-> "overflow", slide |-> conv.currentSlideNumber,
                           y |-> ySlide] >>
    /\ pcSlide = "Done" =>
           /\ rendered = [i \in 1..Len(section) |-> i]
           /\ OverflowDiagnostics = <<>>
    /\ pcSlide # "Overflow" => ySlide <= 190 * mm /\ OverflowDiagnostics = <<>>

C2_Steps ==
    /\ pcSlide = "Start" =>
           /\ rendered' = <<>>
           /\ \/ pcSlide' = "Rendering" /\ elemIdx' = 1
              \/ pcSlide' = "Done" /\ section = <<>>
    /\ pcSlide = "Rendering" =>
           /\ rendered' = Append(rendered, elemIdx)
           /\ ySlide' = renderElement(conv, section[elemIdx], lexErr, ySlide).y
           /\ ySlide' > 190 * mm => pcSlide' = "Overflow"
           /\ ySlide' <= 190 * mm =>
                  \/ pcSlide' = "Rendering" /\ elemIdx' = elemIdx + 1
                  \/ pcSlide' = "Done" /\ elemIdx = Len(section)
    /\ pcSlide \in {"Done", "Overflow"} => UNCHANGED <<pcSlide, rendered, conv, ySlide>>

\* C2: the slide goes Start -> Rendering(i) -> Rendering(i+1) | Overflow |
\* Done, one element per step.  Once renderElement returns a cursor above 190
\* the slide is in Overflow, where no further element is rendered and nothing
\* more is drawn or reported; exactly one overflow diagnostic has been written
\* when quiet is false (none when it is true).  A slide whose cursor never
\* exceeds 190 is in Done once its last element is rendered, with every
\* element rendered and no overflow diagnostic.
C2_SlideStateMachine == []C2_States /\ [][C2_Steps]_vars

C2_Witness ==
    /\ pcSlide = "Overflow"
    /\ ~conv.quiet
    /\ Len(section) = 3
    /\ rendered = <<1, 2>>
    /\ Len(OverflowDiagnostics) = 1
    /\ OverflowDiagnostics[1].y = ySlide

C2_WitnessDone ==
    /\ pcSlide = "Done"
    /\ Len(section) = 3
    /\ conv.stderr = <<>>

-----------------------------------------------------------------------------
(* The comment-escape preprocessor, preprocessMarkdownComments.  The      *)
(* document is a text; its lines are the parts between newlines.          *)

\* a Markdown-enabled document: the first line starts with "# "
IsMarkdown(ls) == Len(ls) > 0 /\ HasPrefix(ls[1], <<"#", " ">>)

\* a fence line: the fence marker, optionally followed by a language tag
IsFenceLine(line) ==
    /\ HasPrefix(line, <<Fence>>)
    /\ \A i \in 2..Len(line) : line[i] \in WordChars

\* a fence state that opens and never closes
NextFence_OpenOnly(inFence, line) == IF IsFenceLine(line) THEN TRUE ELSE inFence

\* a fence line toggles the fence state
NextFence(inFence, line) == IF IsFenceLine(line) THEN ~inFence ELSE inFence

\* only "//" and a single "#" introduce a comment
IsCommentLine_SingleHash(line) ==
    \/ HasPrefix(line, <<"/", "/">>)
    \/ HasPrefix(line, <<"#">>) /\ ~HasPrefix(line, <<"#", "#">>)

\* a line that begins at column 0 with "//" or "#" (so also "#!" and "##")
IsCommentLine(line) == HasPrefix(line, <<"/", "/">>) \/ HasPrefix(line, <<"#">>)

\* the marker takes the place of the first character
Escape_Replace(line) == <<ZWNJ>> \o Tail(line)

\* the marker is prepended
Escape(line) == <<ZWNJ>> \o line

\* a line loop that escapes comment lines outside the fenced blocks too
RECURSIVE EscapeLines_AnyLine(_, _)
EscapeLines_AnyLine(st, ls) ==
    IF st.i > Len(ls) THEN st.out
    ELSE LET line == ls[st.i]
             new == IF ~IsFenceLine(line) /\ IsCommentLine(line)
                    THEN Escape(line) ELSE line
         IN  EscapeLines_AnyLine([out |-> Append(st.out, new),
                                  inFence |-> NextFence(st.inFence, line),
                                  i |-> st.i + 1], ls)

\* the line loop; st = [out, inFence, i]
RECURSIVE EscapeLines(_, _)
EscapeLines(st, ls) ==
    IF st.i > Len(ls) THEN st.out
    ELSE LET line == ls[st.i]
             new == IF ~IsFenceLine(line) /\ st.inFence /\ IsCommentLine(line)
                    THEN Escape(line) ELSE line
         IN  EscapeLines([out |-> Append(st.out, new),
                          inFence |-> NextFence(st.inFence, line),
                          i |-> st.i + 1], ls)

\* a preprocessor that escapes legacy documents too
preprocessMarkdownComments_AnyFormat(src) ==
    Join(EscapeLines([out |-> <<>>, inFence |-> FALSE, i |-> 1], Split(src, NL)), NL)

\* the document is returned as it is unless it is Markdown-enabled
preprocessMarkdownComments(src) ==
    LET ls == Split(src, NL)
    IN  IF ~IsMarkdown(ls) THEN src
        ELSE Join(EscapeLines([out |-> <<>>, inFence |-> FALSE, i |-> 1], ls), NL)

-----------------------------------------------------------------------------
(* Specification of the preprocessor: the document is a sequence of lines *)
(* drawn from a set; one action is preprocessMarkdownComments.            *)

DocLines ==
    { <<"#", " ", "T">>,
      <<Fence>>,
      <<Fence, "g", "o">>,
      <<"/", "/", " ", "c">>,
      <<"#", " ", "c">>,
      <<"#", "!", "x">>,
      <<"#", "#", " ", "h">>,
      <<"/", "*", " ", "c">>,
      <<"$", " ", "x">>,
      <<ZWNJ, "/", "/">>,
      <<>> }

InitPre ==
    /\ \E ls \in SeqsUpTo(DocLines, MaxDocLines) : doc = Join(ls, NL)
    /\ docOut = <<>>
    /\ pcPre = "start"
    /\ IdleConv /\ IdleSplit /\ IdleCode /\ IdleCall /\ IdleHTML /\ IdleSlide /\ IdleFns

Preprocess ==
    /\ pcPre = "start"
    /\ docOut' = preprocessMarkdownComments(doc)
    /\ pcPre' = "done"
    /\ UNCHANGED <<doc, conv, splitVars, codeVars, callVars, htmlVars, slideVars, parseVars,
                   decodeVars, imageVars, optVars, textVars>>

NextPre == Preprocess

SpecPre == InitPre /\ [][NextPre]_vars

InLines == Split(doc, NL)
OutLines == Split(docOut, NL)

\* line i lies inside a fenced block: an odd number of fence lines precede
\* it and it is not a fence line
InsideFence(ls, i) ==
    /\ ~IsFenceLine(ls[i])
    /\ Cardinality({j \in 1..(i - 1) : IsFenceLine(ls[j])}) % 2 = 1

StartsComment(line) ==
    \E pre \in { <<"/", "/">>, <<"#">>, <<"#", "!">>, <<"#", "#">> } : HasPrefix(line, pre)

\* C3: in a Markdown-enabled document every line inside a fenced block that
\* begins at column 0 with "//", "#", "#!" or "##" is the input line with
\* exactly one U+200C prepended, and every other line inside a fenced block
\* is the input line, whether or not the opening fence has a language tag.
C3_EscapedInsideFence ==
    (pcPre = "done" /\ IsMarkdown(InLines)) =>
        /\ Len(OutLines) = Len(InLines)
        /\ \A i \in 1..Len(InLines) :
               InsideFence(InLines, i) =>
                   OutLines[i] = IF StartsComment(InLines[i])
                                 THEN <<ZWNJ>> \o InLines[i]
                                 ELSE InLines[i]

C3_Witness ==
    /\ pcPre = "done"
    /\ InLines = << <<"#", " ", "T">>, <<Fence, "g", "o">>, <<"#", "#", " ", "h">>,
                    <<"$", " ", "x">> >>
    /\ OutLines[3] = <<ZWNJ, "#", "#", " ", "h">>
    /\ OutLines[4] = <<"$", " ", "x">>

\* C4: a line outside the fenced blocks and a fence line are never modified,
\* and a document without a fence line is returned unchanged.
C4_OutsideUnchanged ==
    pcPre = "done" =>
        /\ Len(OutLines) = Len(InLines)
        /\ \A i \in 1..Len(InLines) :
               ~InsideFence(InLines, i) => OutLines[i] = InLines[i]
        /\ (\A i \in 1..Len(InLines) : ~IsFenceLine(InLines[i])) => docOut = doc

C4_Witness ==
    /\ pcPre = "done"
    /\ InLines = << <<"#", " ", "T">>, <<Fence>>, <<Fence>>, <<"/", "/", " ", "c">> >>
    /\ docOut = doc

\* C5: for an input without U+200C, deleting every U+200C from the output
\* gives the input, and the output has as many lines as the input.
C5_RoundTrip ==
    (pcPre = "done" /\ Count(doc, ZWNJ) = 0) =>
        /\ Remove(docOut, ZWNJ) = doc
        /\ Count(docOut, NL) = Count(doc, NL)

C5_Witness ==
    /\ pcPre = "done"
    /\ Count(doc, ZWNJ) = 0
    /\ Count(docOut, ZWNJ) = 2
    /\ Count(doc, NL) = 3

\* C21: a legacy-format document, one whose first line does not start with
\* "# ", is returned unchanged, also when a fenced block of it holds lines
\* that start with "//" or "#".
C21_LegacyUnchanged ==
    (pcPre = "done" /\ ~HasPrefix(InLines[1], <<"#", " ">>)) => docOut = doc

\* a legacy document with a "//" line inside a fenced block has been
\* preprocessed
C21_Witness ==
    /\ pcPre = "done"
    /\ InLines = << <<"$", " ", "x">>, <<Fence, "g", "o">>, <<"/", "/", " ", "c">>,
                    <<Fence>> >>
    /\ docOut = doc

\* line i of the output differs from line i of the input
Marked(i) == OutLines[i] # InLines[i]

\* line i is the first line after the fence line that opens a fenced block
FirstInterior(ls, i) == i > 1 /\ InsideFence(ls, i) /\ IsFenceLine(ls[i - 1])

\* C22 as stated: a line receives a marker only if it is the first line of
\* the interior of a fenced block and begins with a comment-introducing
\* sequence.
C22_Original ==
    pcPre = "done" =>
        \A i \in 1..Len(InLines) :
            Marked(i) => FirstInterior(InLines, i) /\ StartsComment(InLines[i])

\* C22: a line of the output differs from the input line only if the
\* document is Markdown-enabled, the line lies inside a fenced block, at
\* any distance from the fence line that opens it, and begins with a
\* comment-introducing sequence; such a line is the input line with one
\* U+200C prepended.
C22_MarkerOnlyInsideFence ==
    pcPre = "done" =>
        /\ Len(OutLines) = Len(InLines)
        /\ \A i \in 1..Len(InLines) :
               Marked(i) =>
                   /\ HasPrefix(InLines[1], <<"#", " ">>)
                   /\ InsideFence(InLines, i)
                   /\ StartsComment(InLines[i])
                   /\ OutLines[i] = <<ZWNJ>> \o InLines[i]

\* the second comment line of a fenced block has received a marker
C22_Witness ==
    /\ pcPre = "done"
    /\ InLines = << <<"#", " ", "T">>, <<Fence, "g", "o">>, <<"/", "/", " ", "c">>,
                    <<"/", "/", " ", "c">> >>
    /\ Marked(3) /\ Marked(4)
    /\ ~FirstInterior(InLines, 4)

-----------------------------------------------------------------------------
(* Specification of the inline parser: an inline HTML text is drawn, one  *)
(* step is one iteration of the loop of parseHTMLFormatting, the last     *)
(* step is the final flushText.                                           *)

\* largest number of pieces of an inline HTML text
MaxPieces == 3

InlinePieces ==
    { <<"a">>, <<"&", "l", "t", ";">>,
      <<"<strong>">>, <<"</strong>">>, <<"<em>">>, <<"</em>">>, <<"<code>">>, <<"</code>">>,
      <<"<a href=\"U\">">>, <<"<a name=\"n\">">>, <<"</a>">> }

\* '<strong>b</strong>', 'a <a href="U">b</a> a', a link inside bold, and
\* the one-letter and upper-case spellings of the tags
InlineExamples ==
    { <<"<strong>", "b", "</strong>">>,
      <<"a", " ", "<a href=\"U\">", "b", "</a>", " ", "a">>,
      <<"<strong>", "<a href=\"U\">", "a", "</a>", "</strong>">>,
      <<"<b>", "<i>", "a", "</i>", "</b>", "b">>,
      <<"<STRONG>", "a", "</STRONG>", "<br>", " ">> }

InitParse ==
    /\ inline \in {Concat(ps) : ps \in SeqsUpTo(InlinePieces, MaxPieces)} \cup InlineExamples
    /\ parser = ParseStart
    /\ pcParse = "loop"
    /\ IdleConv /\ IdleSplit /\ IdleCode /\ IdleCall /\ IdleHTML /\ IdleSlide /\ IdlePre
    /\ IdleDecode /\ IdleImage /\ IdleOpts /\ IdleText

\* one iteration of the loop over the matches
ParseStep ==
    /\ pcParse = "loop"
    /\ parser.i <= Len(inline)
    /\ parser' = ParseMatch(parser, inline)
    /\ UNCHANGED <<inline, pcParse, conv, splitVars, codeVars, callVars, htmlVars, slideVars,
                   preVars, decodeVars, imageVars, optVars, textVars>>

\* the flushText after the loop, and the return
ParseReturn ==
    /\ pcParse = "loop"
    /\ parser.i > Len(inline)
    /\ parser' = flushText(parser)
    /\ pcParse' = "done"
    /\ UNCHANGED <<inline, conv, splitVars, codeVars, callVars, htmlVars, slideVars, preVars,
                   decodeVars, imageVars, optVars, textVars>>

NextParse == ParseStep \/ ParseReturn

SpecParse == InitParse /\ [][NextParse]_vars

\* the first positions of the maximal runs of text of h, in source order
SegmentStarts(h) ==
    SortedSeq({i \in 1..Len(h) : ~IsTag(h[i]) /\ (i = 1 \/ IsTag(h[i - 1]))})

\* the last position of the run of text that starts at i
SegmentEnd(h, i) ==
    CHOOSE j \in i..Len(h) :
        /\ \A k \in i..j : ~IsTag(h[k])
        /\ (j = Len(h) \/ IsTag(h[j + 1]))

\* the last tag of the set ts before position i, "" when there is none
LastTagBefore(h, i, ts) ==
    LET js == {j \in 1..(i - 1) : ToLower(h[j]) \in ts}
    IN  IF js = {} THEN "" ELSE h[CHOOSE j \in js : \A k \in js : k <= j]

BoldOpeners == {"<strong>", "<b>"}
ItalicOpeners == {"<em>", "<i>"}
HrefAnchors == {t \in AnchorOpenTags : HrefOf(t) # ""}

\* the styles in effect at position i, read off the tags before it
SnapshotAt(h, i) ==
    [Bold |-> ToLower(LastTagBefore(h, i, BoldOpeners \cup {"</strong>", "</b>"})) \in BoldOpeners,
     Italic |-> ToLower(LastTagBefore(h, i, ItalicOpeners \cup {"</em>", "</i>"})) \in ItalicOpeners,
     Code |-> LastTagBefore(h, i, {"<code>", "</code>"}) = "<code>",
     URL |-> HrefOf(LastTagBefore(h, i, HrefAnchors \cup {"</a>"}))]

ExpectedFragments(h) ==
    LET starts == SegmentStarts(h)
    IN  [n \in 1..Len(starts) |->
            [Text |-> decodeHTMLEntities(SubSeq(h, starts[n], SegmentEnd(h, starts[n])))]
                @@ SnapshotAt(h, starts[n])]

\* C11: when parseHTMLFormatting returns, its fragments are exactly one per
\* non-empty run of text between tags, in source order, each with the
\* entity-decoded text of the run and the bold, italic, code and URL values
\* in effect at the run; tags emit nothing and the empty input gives no
\* fragment; '<strong>b</strong>' gives one fragment with only Bold set and
\* 'a <a href="U">b</a> a' three fragments, the middle one with URL U.
C11_OneFragmentPerSegment ==
    pcParse = "done" =>
        /\ parser.fragments = ExpectedFragments(inline)
        /\ parser.fragments = parseHTMLFormatting(inline)
        /\ Len(parser.fragments) = Len(SegmentStarts(inline))
        /\ (inline = <<>> => parser.fragments = <<>>)
        /\ (inline = <<"<strong>", "b", "</strong>">> =>
               parser.fragments =
                   << [Text |-> <<"b">>, Bold |-> TRUE, Italic |-> FALSE, Code |-> FALSE,
                       URL |-> ""] >>)
        /\ (inline = <<"a", " ", "<a href=\"U\">", "b", "</a>", " ", "a">> =>
               /\ Len(parser.fragments) = 3
               /\ parser.fragments[1].Text = <<"a", " ">> /\ parser.fragments[1].URL = ""
               /\ parser.fragments[2].Text = <<"b">> /\ parser.fragments[2].URL = "U"
               /\ parser.fragments[3].Text = <<" ", "a">> /\ parser.fragments[3].URL = "")

\* an entity between two tags has been decoded into one fragment, after a
\* first fragment in another style
C11_Witness ==
    /\ pcParse = "done"
    /\ inline = <<"a", "<em>", "&", "l", "t", ";">>
    /\ Len(parser.fragments) = 2
    /\ parser.fragments[2] =
           [Text |-> <<"<">>, Bold |-> FALSE, Italic |-> TRUE, Code |-> FALSE, URL |-> ""]

\* the style a tag belongs to, "" for a tag of no style
StyleOf(t) ==
    CASE ToLower(t) \in {"<strong>", "<b>", "</strong>", "</b>"} -> "bold"
      [] ToLower(t) \in {"<em>", "<i>", "</em>", "</i>"} -> "italic"
      [] ToLower(t) \in {"<code>", "</code>"} -> "code"
      [] ToLower(t) \in AnchorOpenTags \cup {"</a>"} -> "link"
      [] OTHER -> ""

\* the loop is at a tag of style s
AtTagOf(s) ==
    /\ pcParse = "loop"
    /\ parser.i <= Len(inline)
    /\ IsTag(inline[parser.i])
    /\ StyleOf(inline[parser.i]) = s

C12_Steps ==
    /\ AtTagOf("bold") =>
           <<parser.italic, parser.code, parser.currentURL>>'
               = <<parser.italic, parser.code, parser.currentURL>>
    /\ AtTagOf("italic") =>
           <<parser.bold, parser.code, parser.currentURL>>'
               = <<parser.bold, parser.code, parser.currentURL>>
    /\ AtTagOf("code") =>
           <<parser.bold, parser.italic, parser.currentURL>>'
               = <<parser.bold, parser.italic, parser.currentURL>>
    /\ AtTagOf("link") =>
           <<parser.bold, parser.italic, parser.code>>'
               = <<parser.bold, parser.italic, parser.code>>

C12_Nested ==
    (pcParse = "done" /\ inline = <<"<strong>", "<a href=\"U\">", "a", "</a>", "</strong>">>) =>
        parser.fragments =
            << [Text |-> <<"a">>, Bold |-> TRUE, Italic |-> FALSE, Code |-> FALSE, URL |-> "U"] >>

\* C12: a step of the loop on an opening or closing tag of one style (bold,
\* italic, code, link) leaves the values of the other three styles as they
\* were, so nested tags compose: the text inside
\* <strong><a href="U">..</a></strong> is one fragment with Bold and URL U.
C12_Orthogonal == [][C12_Steps]_vars /\ []C12_Nested

\* a closing tag of one style has been processed while two other styles
\* were in effect, and both still are
C12_Witness ==
    /\ pcParse = "loop"
    /\ inline = <<"<strong>", "<a href=\"U\">", "</em>">>
    /\ parser.i = 4
    /\ parser.bold /\ parser.currentURL = "U" /\ ~parser.italic

\* the last anchor tag (opening or closing) before the loop position
LastAnchorTag == LastTagBefore(inline, parser.i, AnchorOpenTags \cup {"</a>"})

\* C13: in every state of the parser in which the last anchor tag processed
\* is an opening anchor without href, no link is active (currentURL is
\* empty), so the text up to the next anchor tag gets an empty URL.
C13_HreflessInactive ==
    (LastAnchorTag \in AnchorOpenTags /\ HrefOf(LastAnchorTag) = "") => parser.currentURL = ""

-----------------------------------------------------------------------------
(* Specification of the entity decoder: a text made of references and     *)
(* plain characters is drawn; one action is decodeHTMLEntities.           *)

\* largest number of pieces of a text with references
MaxRefs == 3

Amp == <<"&", "a", "m", "p", ";">>
References ==
    { <<"&", "l", "t", ";">>, <<"&", "g", "t", ";">>, Amp, <<"&", "q", "u", "o", "t", ";">>,
      <<"&", "#", "3", "9", ";">>, <<"&", "#", "3", "4", ";">>, <<"&", "a", "p", "o", "s", ";">> }

\* plain text: a letter, and the names of three references
PlainPieces == { <<"x">>, <<"l", "t", ";">>, <<"a", "m", "p", ";">>, <<"q", "u", "o", "t", ";">> }

\* '&lt;x&gt; &amp; &quot;y&quot;'
EntityExample ==
    <<"&", "l", "t", ";", "x", "&", "g", "t", ";", " ", "&", "a", "m", "p", ";", " ",
      "&", "q", "u", "o", "t", ";", "y", "&", "q", "u", "o", "t", ";">>

InitDecode ==
    /\ entity \in {Concat(ps) : ps \in SeqsUpTo(References \cup PlainPieces, MaxRefs)}
                      \cup {EntityExample}
    /\ decoded = <<>>
    /\ pcDecode = "start"
    /\ IdleConv /\ IdleSplit /\ IdleCode /\ IdleCall /\ IdleHTML /\ IdleSlide /\ IdlePre
    /\ IdleParse /\ IdleImage /\ IdleOpts /\ IdleText

Decode ==
    /\ pcDecode = "start"
    /\ decoded' = decodeHTMLEntities(entity)
    /\ pcDecode' = "done"
    /\ UNCHANGED <<entity, conv, splitVars, codeVars, callVars, htmlVars, slideVars, preVars,
                   parseVars, imageVars, optVars, textVars>>

NextDecode == Decode

SpecDecode == InitDecode /\ [][NextDecode]_vars

\* s holds sub as a substring
HasSub(s, sub) == \E i \in 1..(Len(s) - Len(sub) + 1) : SubSeq(s, i, i + Len(sub) - 1) = sub

\* an &amp; directly followed by the name of a reference that is replaced
\* before or with it
EscapedReference(t) ==
    \/ HasSub(t, Amp \o <<"l", "t", ";">>)
    \/ HasSub(t, Amp \o <<"g", "t", ";">>)
    \/ HasSub(t, Amp \o <<"a", "m", "p", ";">>)

C14_Example ==
    (pcDecode = "done" /\ entity = EntityExample) =>
        decoded = <<"<", "x", ">", " ", "&", " ", "\"", "y", "\"">>

\* C14 as stated: for every text over the supported references, decoding
\* the decoded text again changes nothing; and the example decodes to
\* '<x> & "y"'.
C14_Original ==
    /\ pcDecode = "done" => decodeHTMLEntities(decoded) = decoded
    /\ C14_Example

\* C14: for every text in which no &amp; is directly followed by 'lt;',
\* 'gt;' or 'amp;', decoding the decoded text again changes nothing, and
\* for the other texts it does change it; and the example decodes to
\* '<x> & "y"'.
C14_IdempotentUnlessEscaped ==
    /\ pcDecode = "done" => (decodeHTMLEntities(decoded) = decoded <=> ~EscapedReference(entity))
    /\ C14_Example

\* a text with an &amp; before the name of a reference that is replaced
\* after it has been decoded
C14_Witness ==
    /\ pcDecode = "done"
    /\ entity = Amp \o <<"q", "u", "o", "t", ";">> \o <<"&", "l", "t", ";">>
    /\ decoded = <<"\"", "<">>

-----------------------------------------------------------------------------
(* Specification of the image placer: what the file system and the image  *)
(* library report for the path, the cursor and the quiet flag are drawn;  *)
(* one action is renderImageFile.                                         *)

\* largest native width and height of an image
MaxNative == 4

ImageInfos ==
    { [exists |-> TRUE, ext |-> e, loads |-> TRUE, w |-> w, h |-> h] :
          e \in {"PNG", "JPG"}, w \in 0..MaxNative, h \in 0..MaxNative }
        \cup { NoFile,
               [exists |-> TRUE, ext |-> "BMP", loads |-> TRUE, w |-> 1, h |-> 1],
               [exists |-> TRUE, ext |-> "PNG", loads |-> FALSE, w |-> 0, h |-> 0] }

ImageCursors == {45 * mm, 120 * mm, 184 * mm, 185 * mm, 195 * mm}

InitImage ==
    /\ imgFile \in ImageInfos
    /\ pcImage = "start"
    /\ \E q \in BOOLEAN : conv = NewConv(q, 2)
    /\ yIn \in ImageCursors
    /\ yOut = 0
    /\ lexErr = FALSE
    /\ IdleSplit /\ IdleCode /\ IdleHTML /\ IdleSlide /\ IdlePre
    /\ IdleParse /\ IdleDecode /\ IdleOpts /\ IdleText

RenderImageFile ==
    /\ pcImage = "start"
    /\ \E r \in {PlaceImage(conv, imgFile, "i", yIn)} :
           conv' = r.c /\ yOut' = r.y
    /\ pcImage' = "done"
    /\ UNCHANGED <<imgFile, lexErr, yIn, splitVars, codeVars, htmlVars, slideVars, preVars,
                   parseVars, decodeVars, optVars, textVars>>

NextImage == RenderImageFile

SpecImage == InitImage /\ [][NextImage]_vars

\* the file is an image that loads, of positive native size, and more than
\* 5 mm are left above the bottom of the content area
Fits ==
    /\ imgFile.exists /\ imgFile.ext \in {"JPG", "JPEG", "PNG", "GIF"} /\ imgFile.loads
    /\ imgFile.w > 0 /\ imgFile.h > 0
    /\ 190 * mm - yIn > 5 * mm

-----------------------------------------------------------------------------
(* Specification of a slide with images: the slide composer on sections   *)
(* of image fragments (one that fits, and one of each failing kind) and   *)
(* of short elements.                                                     *)

FailingImageTags == {"<img src=\"none.png\">", "<img src=\"a.bmp\">", "<img src=\"bad.png\">"}

ImageSlideElems ==
    { Elem("HTML", << <<t>> >>, "") : t \in FailingImageTags \cup {"<img src=\"a.png\">"} }
        \cup { Elem("Text", << <<"a", "b">> >>, ""),
               Elem("HTML", << <<"<p>", "a", "</p>">> >>, "") }

InitSlideImages ==
    /\ section \in SeqsUpTo(ImageSlideElems, MaxElems)
    /\ elemIdx = 0
    /\ ySlide = 0
    /\ pcSlide = "Start"
    /\ rendered = <<>>
    /\ \E q \in BOOLEAN : conv = NewConv(q, 2)
    /\ lexErr = FALSE
    /\ yIn = 0 /\ yOut = 0
    /\ IdleSplit /\ IdleCode /\ IdleHTML /\ IdlePre /\ IdleFns

SpecSlideImages == InitSlideImages /\ [][NextSlide]_vars

\* the element is a fragment with an image that is missing, of an
\* unsupported format, or that fails to load
FailingImage(elem) == elem.kind = "HTML" /\ elem.text[1] \in {<<t>> : t \in FailingImageTags}

\* the loop of renderSlide is at a failing image
AtFailingImage == pcSlide = "Rendering" /\ FailingImage(section[elemIdx])

\* the section without its failing images
WithoutFailingImages == SelectSeq(section, LAMBDA e : ~FailingImage(e))

C16_Steps ==
    AtFailingImage =>
        /\ conv'.pdf = conv.pdf
        /\ ySlide' = ySlide
        /\ ~conv'.err
        /\ pcSlide' = IF elemIdx = Len(section) THEN "Done" ELSE "Rendering"

C16_Slide ==
    /\ ~conv.err
    /\ SlideEnded =>
           /\ OutputFileAndClose(conv) = "nil"
           /\ LET r == RenderPrefix([c |-> SlideHead(NewConv(TRUE, 0)), y |-> 45 * mm, k |-> 1],
                                    WithoutFailingImages, Len(WithoutFailingImages), lexErr)
              IN  pcSlide = "Done" => conv.pdf = r.c.pdf /\ ySlide = r.y

\* C16: a step of the slide loop on an image that is missing, of an
\* unsupported format or that fails to load draws nothing, leaves the
\* cursor where it was, leaves the document without error and goes on to
\* the next element; so the slide is drawn, and ends at the cursor, as if
\* the failing images were not in the section, and OutputFileAndClose at
\* the end of Convert returns no error.
C16_ImageFailureNonFatal == [][C16_Steps]_vars /\ []C16_Slide

\* an image that fails to load has been skipped and the paragraph after it
\* has been drawn at the cursor the image was given
C16_Witness ==
    /\ pcSlide = "Done"
    /\ section = << Elem("HTML", << << "<img src=\"bad.png\">" >> >>, ""),
                    Elem("HTML", << <<"<p>", "a", "</p>">> >>, "") >>
    /\ ~conv.err
    /\ \E i \in 1..Len(conv.pdf) : conv.pdf[i].op = "Cell" /\ conv.pdf[i].y = 45 * mm
    /\ (~conv.quiet => Len(conv.stderr) = 1)

-----------------------------------------------------------------------------
(* Specification of the callers of highlightCode: a code text, a language *)
(* hint ("" for none, "zz" a name no lexer has), the outcome of the lexer *)
(* and the quiet flag are drawn; the code is rendered as a present.Code   *)
(* element, as an HTML code block or as a fenced block of a text.         *)

\* largest number of lines of a code sample
MaxSampleLines == 2

CodeSamples ==
    UNION { {Join(ls, NL) : ls \in [1..n -> {<<>>, <<"a">>, <<" ", "b">>}]} : n \in 1..MaxSampleLines }

InitHighlight ==
    /\ codeText \in CodeSamples
    /\ codeExt \in {"", "go", "zz"}
    /\ lexErr \in BOOLEAN
    /\ yIn = 45 * mm
    /\ yOut = 0
    /\ pcCode = "start"
    /\ \E q \in BOOLEAN : conv = NewConv(q, 2)
    /\ IdleSplit /\ IdleHTML /\ IdleSlide /\ IdlePre /\ IdleFns

\* the code as the Raw of a present.Code element whose file name has the
\* extension codeExt
CodeElement ==
    /\ pcCode = "start"
    /\ \E r \in {renderCode(conv, codeText, codeExt, lexErr, yIn)} :
           conv' = r.c /\ yOut' = r.y
    /\ pcCode' = "renderCode"
    /\ UNCHANGED <<codeText, codeExt, lexErr, yIn, splitVars, htmlVars, slideVars, preVars,
                   parseVars, decodeVars, imageVars, optVars, textVars>>

\* <pre><code class="language-..."> of the hint
CodeOpenTag(hint) ==
    CASE hint = "go" -> "<pre><code class=\"language-go\">"
      [] hint = "zz" -> "<pre><code class=\"language-zz\">"
      [] OTHER -> "<pre><code>"

\* the code as an HTML code block
CodeBlockHTML ==
    /\ pcCode = "start"
    /\ \E r \in {renderHTMLCode(conv, <<CodeOpenTag(codeExt)>> \o codeText \o <<CodeCloseTag>>,
                                lexErr, yIn)} :
           conv' = r.c /\ yOut' = r.y
    /\ pcCode' = "renderHTMLCode"
    /\ UNCHANGED <<codeText, codeExt, lexErr, yIn, splitVars, htmlVars, slideVars, preVars,
                   parseVars, decodeVars, imageVars, optVars, textVars>>

\* the language tag of a fence for the hint
FenceTag(hint) ==
    CASE hint = "go" -> <<"g", "o">>
      [] hint = "zz" -> <<"z", "z">>
      [] OTHER -> <<>>

\* the code as a fenced block
CodeBlockMarkdown ==
    /\ pcCode = "start"
    /\ \E r \in {renderMarkdownCodeBlock(conv, <<Fence>> \o FenceTag(codeExt) \o <<NL>>
                                                   \o codeText \o <<NL, Fence>>,
                                         lexErr, yIn)} :
           conv' = r.c /\ yOut' = r.y
    /\ pcCode' = "renderMarkdownCodeBlock"
    /\ UNCHANGED <<codeText, codeExt, lexErr, yIn, splitVars, htmlVars, slideVars, preVars,
                   parseVars, decodeVars, imageVars, optVars, textVars>>

NextHighlight == CodeElement \/ CodeBlockHTML \/ CodeBlockMarkdown

SpecHighlight == InitHighlight /\ [][NextHighlight]_vars

\* the text and the language the caller hands to highlightCode
HandedCode == IF pcCode = "renderCode" THEN codeText ELSE TrimSpace(codeText)
HandedLanguage ==
    IF pcCode = "renderCode" \/ codeExt = "" THEN "go"
    ELSE IF codeExt = "zz" THEN "no such language" ELSE codeExt

\* the converter of the call, after highlightCode has been given the code
Handed == [NewConv(conv.quiet, 2) EXCEPT !.lexed = <<HandedCode>>]

\* the tokens of the fallback lexer: the whole text as one token, in the
\* colour of plain text
FallbackTokens(code) ==
    IF code = <<>> THEN <<>> ELSE << Token("Text", code, <<171, 178, 191>>) >>

\* C17: whichever caller renders the code (renderCode, renderHTMLCode,
\* renderMarkdownCodeBlock), highlightCode is given the code text once and
\* the cursor returned is past the cursor given; when highlightCode
\* returns an error, what is drawn and returned is what renderCodePlain
\* draws and returns for that same text; when the language has no lexer
\* and the lexer does not fail, what is drawn is the highlighted rendering
\* of the tokens of the fallback lexer.
C17_HighlightNeverAborts ==
    pcCode \in {"renderCode", "renderHTMLCode", "renderMarkdownCodeBlock"} =>
        /\ conv.lexed = <<HandedCode>>
        /\ yOut > yIn
        /\ lexErr =>
               /\ conv.pdf = renderCodePlain(Handed, HandedCode, yIn).c.pdf
               /\ yOut = renderCodePlain(Handed, HandedCode, yIn).y
               /\ conv.pdf # <<>>
        /\ (~lexErr /\ HandedLanguage = "no such language") =>
               /\ conv.pdf = renderHighlightedCode(Handed, FallbackTokens(HandedCode), yIn).c.pdf
               /\ yOut = renderHighlightedCode(Handed, FallbackTokens(HandedCode), yIn).y

\* a fenced block in a language without lexer, with a lexer that fails, has
\* been drawn as plain code: the background and one cell per line
C17_Witness ==
    /\ pcCode = "renderMarkdownCodeBlock"
    /\ codeExt = "zz" /\ lexErr
    /\ codeText = <<"a", NL, " ", "b">>
    /\ Len(conv.pdf) = 3
    /\ conv.pdf[1].op = "Rect"
    /\ yOut = yIn + 24 * mm

\* an HTML code block in a language without lexer has been drawn from the
\* single token of the fallback lexer
C17_WitnessFallback ==
    /\ pcCode = "renderHTMLCode"
    /\ codeExt = "zz" /\ ~lexErr
    /\ codeText = <<"a", NL, " ", "b">>
    /\ conv.pdf # <<>>

-----------------------------------------------------------------------------
(* Specification of a slide with incomplete blocks: the slide composer on *)
(* sections of HTML fragments, some with a code block or a blockquote     *)
(* that is not closed or a blockquote that is empty, alone or among       *)
(* complete blocks.                                                       *)

ShapeFragments ==
    { <<"<pre><code>", "a">>,
      <<"<blockquote>", "b">>,
      <<"<blockquote>", " ", "</blockquote>">>,
      <<"<blockquote>", "<p>", " ", "</p>", "</blockquote>", "<p>", "a", "</p>">>,
      <<"<p>", "a", "</p>", "<blockquote>", "</blockquote>",
        "<pre><code>", "a", CodeCloseTag>>,
      <<"<blockquote>", "<p>", "b", "</p>", "</blockquote>">>,
      <<"<pre><code>", "a", CodeCloseTag>>,
      <<"<p>", "a", "</p>">> }

InitShape ==
    /\ section \in SeqsUpTo({Elem("HTML", <<f>>, "") : f \in ShapeFragments}, MaxElems)
    /\ elemIdx = 0
    /\ ySlide = 0
    /\ pcSlide = "Start"
    /\ rendered = <<>>
    /\ \E q \in BOOLEAN : conv = NewConv(q, 2)
    /\ lexErr = FALSE
    /\ yIn = 0 /\ yOut = 0
    /\ IdleSplit /\ IdleCode /\ IdleHTML /\ IdlePre /\ IdleFns

SpecShape == InitShape /\ [][NextSlide]_vars

\* the part holds a code block with its closing tag
CompleteCodeIn(p) ==
    \E i \in 1..Len(p) : \E j \in (i + 1)..Len(p) :
        p[i] \in CodeOpenTags /\ p[j] = CodeCloseTag

\* the part holds a blockquote with its closing tag
CompleteQuoteIn(p) ==
    \E i \in 1..Len(p) : \E j \in (i + 1)..Len(p) :
        p[i] = "<blockquote>" /\ p[j] = "</blockquote>"

\* the first blockquote of the part holds nothing but white space and
\* paragraph tags
EmptyQuote(p) ==
    \E i \in 1..Len(p) : \E j \in (i + 1)..Len(p) :
        /\ p[i] = "<blockquote>" /\ p[j] = "</blockquote>"
        /\ \A n \in 1..(i - 1) : p[n] # "<blockquote>"
        /\ \A n \in (i + 1)..(j - 1) : p[n] \in {"<p>", "</p>"} \/ IsSpace(p[n])

\* the part does not have the shape its renderer extracts
ShapeMismatch(fn, p) ==
    \/ fn = "renderHTMLCode" /\ ~CompleteCodeIn(p)
    \/ fn = "renderHTMLBlockquote" /\ (~CompleteQuoteIn(p) \/ EmptyQuote(p))

\* the renderer calls of the step of the slide loop that is taken
StepCalls == SubSeq(conv'.calls, Len(conv.calls) + 1, Len(conv'.calls))

C18_Steps ==
    pcSlide = "Rendering" =>
        LET h == section[elemIdx].text[1]
            calls == StepCalls
            skipped(k) == ShapeMismatch(calls[k].fn, SubSeq(h, calls[k].from, calls[k].to))
        IN  /\ \A k \in 1..Len(calls) :
                   skipped(k) =>
                       LET r == Dispatch(conv, calls[k].fn, h, calls[k], lexErr, calls[k].y)
                       IN  /\ r.c.pdf = conv.pdf
                           /\ r.c.stderr = conv.stderr
                           /\ r.c.err = conv.err
                           /\ r.y = calls[k].y
                           /\ IF k < Len(calls) THEN calls[k + 1].y = calls[k].y
                              ELSE ySlide' = calls[k].y
                           /\ \A i \in (calls[k].to + 1)..Len(h) :
                                  CompleteBlockAt(h, i) =>
                                      \E n \in (k + 1)..Len(calls) :
                                          calls[n].from <= i /\ i <= calls[n].to
            /\ (Len(calls) > 0 /\ \A k \in 1..Len(calls) : skipped(k)) =>
                   /\ conv'.pdf = conv.pdf
                   /\ conv'.stderr = conv.stderr
                   /\ ySlide' = ySlide
                   /\ pcSlide' = IF elemIdx = Len(section) THEN "Done" ELSE "Rendering"
                   /\ elemIdx' = IF elemIdx = Len(section) THEN elemIdx ELSE elemIdx + 1

\* C18: a part handed to renderHTMLCode without a complete code block, or
\* to renderHTMLBlockquote without a complete blockquote or with an empty
\* one, issues no drawing operation, writes no warning, sets no error and
\* returns the cursor it was given; the next renderer call starts at that
\* cursor and every complete block after the part is still rendered; a
\* fragment that is skipped whole leaves the page and the cursor as they
\* were and the slide loop goes on to the next element; the document is
\* never in error.
C18_ShapeMismatchSkipped == [][C18_Steps]_vars /\ [](~conv.err)

\* an unclosed code block has been skipped and the paragraph after it has
\* been drawn at the cursor the code block was given
C18_Witness ==
    /\ pcSlide = "Done"
    /\ section = << Elem("HTML", << <<"<pre><code>", "a">> >>, ""),
                    Elem("HTML", << <<"<p>", "a", "</p>">> >>, "") >>
    /\ Len(conv.calls) = 2
    /\ conv.calls[1].fn = "renderHTMLCode" /\ conv.calls[1].y = 45 * mm
    /\ conv.calls[2].fn = "renderHTMLParagraphs" /\ conv.calls[2].y = 45 * mm
    /\ \E i \in 1..Len(conv.pdf) : conv.pdf[i].op = "Cell" /\ conv.pdf[i].y = 45 * mm
    /\ conv.stderr = <<>>

\* an empty blockquote between a paragraph and a code block has been
\* skipped inside one fragment
C18_WitnessMixed ==
    /\ pcSlide = "Done"
    /\ Len(section) = 1
    /\ Len(conv.calls) = 3
    /\ conv.calls[2].fn = "renderHTMLBlockquote"
    /\ conv.calls[3].fn = "renderHTMLCode"
    /\ conv.calls[3].y = conv.calls[2].y
    /\ conv.calls[2].y > 45 * mm

-----------------------------------------------------------------------------
(* Specification of the layout cursor: the slide composer on sections of  *)
(* every element kind, renderElement called once at a drawn cursor, and   *)
(* renderFormattedText run one loop iteration per step on styled words,   *)
(* wide ones included, with the parameters of its callers.                *)

\* largest number of words of a formatted text
MaxWords == 4

CursorElems ==
    { Elem("Text", << <<"a", "b">> >>, ""),
      Elem("Text", << <<Fence, "g", "o">>, <<"a">>, <<Fence>> >>, ""),
      Elem("Text", <<>>, ""),
      Elem("List", << <<"a">>, <<"b">> >>, ""),
      Elem("List", <<>>, ""),
      Elem("Code", << <<"a", NL, "b">> >>, "go"),
      Elem("HTML", << <<"<p>", "W", " ", "W", " ", "W", "</p>">> >>, ""),
      Elem("HTML", << <<"<blockquote>", "<p>", "b", "</p>", "</blockquote>">> >>, ""),
      Elem("HTML", << << "<img src=\"a.png\">" >> >>, ""),
      Elem("HTML", <<<<>>>>, ""),
      Elem("Link", << <<"a">> >>, "U"),
      Elem("Image", <<>>, "") }

\* cursors renderElement is called at
CursorInputs == {0, 45 * mm, 120 * mm, 186 * mm, 190 * mm, 250 * mm}

\* the words of a formatted text
StyledWords ==
    { <<"W">>, <<"a">>, <<"<b>", "W", "</b>">>, <<"<code>", "W", "</code>">> }

\* x, maxWidth and lineHeight at the call sites of renderFormattedText
LayoutParams ==
    { [x |-> 20 * mm, maxWidth |-> 257 * mm, lineHeight |-> 11 * mm],
      [x |-> 30 * mm, maxWidth |-> 247 * mm, lineHeight |-> 9 * mm],
      [x |-> 28 * mm, maxWidth |-> 249 * mm, lineHeight |-> 11 * mm] }

InitCursorSlide ==
    /\ section \in SeqsUpTo({e \in CursorElems : e.text # <<>> \/ e.kind = "Image"}
                                \ {Elem("HTML", <<<<>>>>, "")}, MaxElems)
    /\ pcSlide = "Start"
    /\ lexErr \in BOOLEAN
    /\ yIn = 0
    /\ IdleText

InitCursorCall ==
    /\ section \in {<<e>> : e \in CursorElems}
    /\ pcSlide = "Call"
    /\ lexErr \in BOOLEAN
    /\ yIn \in CursorInputs
    /\ IdleText

InitCursorText ==
    /\ section = <<>>
    /\ pcSlide = "idle"
    /\ lexErr = FALSE
    /\ \E ws \in SeqsUpTo(StyledWords, MaxWords) :
           textFragments = parseHTMLFormatting(Join(ws, " "))
    /\ yIn \in {45 * mm, 186 * mm}
    /\ \E p \in LayoutParams : layout = LayoutStart(p.x, yIn, p.maxWidth, p.lineHeight)
    /\ pcText = "start"

InitCursor ==
    /\ (InitCursorSlide \/ InitCursorCall \/ InitCursorText)
    /\ elemIdx = 0
    /\ ySlide = 0
    /\ rendered = <<>>
    /\ conv = NewConv(TRUE, 2)
    /\ yOut = 0
    /\ IdleSplit /\ IdleCode /\ IdleHTML /\ IdlePre
    /\ IdleParse /\ IdleDecode /\ IdleImage /\ IdleOpts

\* renderElement called once at the cursor yIn
RenderElementAt ==
    /\ pcSlide = "Call"
    /\ \E r \in {renderElement(conv, section[1], lexErr, yIn)} :
           conv' = r.c /\ yOut' = r.y
    /\ pcSlide' = "Returned"
    /\ UNCHANGED <<section, elemIdx, ySlide, rendered, lexErr, yIn, splitVars, codeVars,
                   htmlVars, preVars, parseVars, decodeVars, imageVars, optVars, textVars>>

\* renderFormattedText up to its fragment loop
FormatStart ==
    /\ pcText = "start"
    /\ conv' = setTextFont(conv, 18)
    /\ pcText' = "fragment"
    /\ UNCHANGED <<textFragments, layout, callVars, splitVars, codeVars, htmlVars,
                   slideVars, preVars, parseVars, decodeVars, imageVars, optVars>>

\* the head of the fragment loop: the font and colour of the fragment, or
\* the return of currentY + lineHeight after the last fragment
FormatFragment ==
    /\ pcText = "fragment"
    /\ IF layout.j > Len(textFragments)
       THEN /\ yOut' = layout.currentY + layout.lineHeight
            /\ pcText' = "done"
            /\ UNCHANGED <<conv, layout>>
       ELSE /\ conv' = BeginFragment(conv, textFragments[layout.j])
            /\ layout' = [layout EXCEPT !.k = 1]
            /\ pcText' = "word"
            /\ yOut' = yOut
    /\ UNCHANGED <<textFragments, lexErr, yIn, splitVars, codeVars, htmlVars, slideVars,
                   preVars, parseVars, decodeVars, imageVars, optVars>>

\* one iteration of the word loop, or the end of the fragment after its
\* last word
FormatWord ==
    /\ pcText = "word"
    /\ LET fragment == textFragments[layout.j]
           words == Fields(fragment.Text)
       IN  IF layout.k > Len(words)
           THEN /\ conv' = EndFragment(conv, fragment)
                /\ layout' = [layout EXCEPT !.j = @ + 1]
                /\ pcText' = "fragment"
           ELSE /\ \E r \in {RenderWord([c |-> conv, currentX |-> layout.currentX,
                                         currentY |-> layout.currentY,
                                         j |-> layout.j, k |-> layout.k],
                                        fragment, words[layout.k], layout.x,
                                        layout.maxWidth, layout.lineHeight)} :
                       /\ conv' = r.c
                       /\ layout' = [layout EXCEPT !.currentX = r.currentX,
                                                   !.currentY = r.currentY, !.k = r.k]
                /\ pcText' = "word"
    /\ UNCHANGED <<textFragments, callVars, splitVars, codeVars, htmlVars, slideVars,
                   preVars, parseVars, decodeVars, imageVars, optVars>>

NextCursor == BeginSlide \/ RenderStep \/ RenderElementAt \/ FormatStart \/ FormatFragment
                  \/ FormatWord

SpecCursor == InitCursor /\ [][NextCursor]_vars

C19_Steps ==
    /\ ySlide' >= ySlide
    /\ layout'.currentY >= layout.currentY

C19_Returns ==
    /\ pcSlide = "Returned" => yOut >= yIn
    /\ pcText = "done" =>
           /\ yOut >= yIn
           /\ yOut >= layout.currentY
           /\ LET r == renderFormattedText(NewConv(TRUE, 2), textFragments, layout.x, yIn,
                                           layout.maxWidth, layout.lineHeight)
              IN  r.y = yOut /\ r.c = conv

\* C19: every step of the slide loop leaves the cursor where it was or
\* moves it down, for an element of every kind (Text, List, Code, HTML,
\* Link, an unsupported kind); renderElement called at any cursor returns
\* a value that is not above it; every step of the loops of
\* renderFormattedText leaves currentY where it was or moves it down, and
\* the function returns a value below the cursor it was given.
C19_CursorNeverRewound == [][C19_Steps]_vars /\ []C19_Returns

\* a slide of three elements of different kinds has been rendered and each
\* has moved the cursor down
C19_Witness ==
    /\ pcSlide = "Done"
    /\ Len(section) = 3
    /\ section[1].kind = "Link" /\ section[2].kind = "HTML" /\ section[3].kind = "Code"
    /\ ySlide > 45 * mm + 15 * mm + 33 * mm

\* renderFormattedText has wrapped a bold word and returned
C19_WitnessWrap ==
    /\ pcText = "done"
    /\ Len(textFragments) > 1
    /\ layout.currentY = yIn + layout.lineHeight
    /\ yOut = yIn + 2 * layout.lineHeight

\* renderElement has been called below the content area on an image and
\* on an unsupported kind and has returned the cursor
C19_WitnessBelow ==
    /\ pcSlide = "Returned"
    /\ yIn = 250 * mm /\ yOut = yIn
    /\ section[1].kind \in {"Image", "HTML"}

-----------------------------------------------------------------------------
(* Specification of NewConverter (converter.go): the options passed are   *)
(* drawn; one step builds the default Converter and one step applies one  *)
(* option.                                                                *)

\* largest number of options passed to NewConverter
MaxOpts == 3

LightTheme == "LightTheme"
DarkTheme == "DarkTheme"

\* availableThemes maps theme names to themes
availableThemes == ("light" :> LightTheme) @@ ("dark" :> DarkTheme)

\* WithCodeTheme(themeName) applied to c
WithCodeTheme(themeName, c) == [c EXCEPT !.codeTheme = themeName]

\* an option that falls back to the default theme on an unknown name
WithTheme_Reset(themeName, c) ==
    IF themeName \in DOMAIN availableThemes
    THEN [c EXCEPT !.theme = availableThemes[themeName]]
    ELSE [c EXCEPT !.theme = LightTheme]

\* WithTheme(themeName) applied to c
WithTheme(themeName, c) ==
    IF themeName \in DOMAIN availableThemes
    THEN [c EXCEPT !.theme = availableThemes[themeName]]
    ELSE c

\* WithQuiet(quiet) applied to c
WithQuiet(quiet, c) == [c EXCEPT !.quiet = quiet]

\* an Option value: the constructor that made it and its argument, a name
\* (arg) or, for WithQuiet, a flag (quiet)
Option(name, arg) ==
    [name |-> name, arg |-> IF name = "WithQuiet" THEN "" ELSE arg,
     quiet |-> IF name = "WithQuiet" THEN arg ELSE FALSE]

\* opt(c)
ApplyOption(opt, c) ==
    CASE opt.name = "WithCodeTheme" -> WithCodeTheme(opt.arg, c)
      [] opt.name = "WithTheme" -> WithTheme(opt.arg, c)
      [] opt.name = "WithQuiet" -> WithQuiet(opt.quiet, c)

\* the default configuration of NewConverter
DefaultConverter == [codeTheme |-> "monokai", theme |-> LightTheme, quiet |-> FALSE]

\* theme names and code theme names passed: known, unknown, empty, and a
\* known name in another case
ThemeNames == {"light", "dark", "Dark", "", "monokai"}
CodeThemeNames == {"monokai", "dracula", "", "dark"}

Options ==
    {Option("WithTheme", n) : n \in ThemeNames}
        \cup {Option("WithCodeTheme", n) : n \in CodeThemeNames}
        \cup {Option("WithQuiet", q) : q \in BOOLEAN}

InitOptions ==
    /\ opts \in SeqsUpTo(Options, MaxOpts)
    /\ newConv = [codeTheme |-> "", theme |-> "", quiet |-> FALSE]
    /\ optIdx = 0
    /\ conv = NewConv(FALSE, 0)
    /\ lexErr = FALSE /\ yIn = 0 /\ yOut = 0
    /\ IdleSplit /\ IdleCode /\ IdleHTML /\ IdleSlide /\ IdlePre
    /\ IdleParse /\ IdleDecode /\ IdleImage /\ IdleText

\* c := &Converter{codeTheme: "monokai", theme: LightTheme}
Construct ==
    /\ optIdx = 0
    /\ newConv' = DefaultConverter
    /\ optIdx' = 1
    /\ UNCHANGED <<opts, conv, callVars, splitVars, codeVars, htmlVars, slideVars, preVars,
                   parseVars, decodeVars, imageVars, textVars>>

\* one iteration of for _, opt := range opts
ApplyNext ==
    /\ optIdx >= 1
    /\ optIdx <= Len(opts)
    /\ newConv' = ApplyOption(opts[optIdx], newConv)
    /\ optIdx' = optIdx + 1
    /\ UNCHANGED <<opts, conv, callVars, splitVars, codeVars, htmlVars, slideVars, preVars,
                   parseVars, decodeVars, imageVars, textVars>>

NextOptions == Construct \/ ApplyNext

SpecOptions == InitOptions /\ [][NextOptions]_vars

\* NewConverter has returned
Constructed == optIdx = Len(opts) + 1

\* the argument of the last option of the given constructor whose argument
\* lies in the set, or the default where no option is such
LastArg(name, args, default) ==
    LET S == {i \in 1..Len(opts) : opts[i].name = name /\ opts[i].arg \in args}
    IN  IF S = {} THEN default ELSE opts[CHOOSE i \in S : \A j \in S : j <= i].arg

C20_Steps ==
    /\ optIdx = 0 => newConv'.codeTheme = "monokai" /\ newConv'.theme = LightTheme
    /\ optIdx >= 1 =>
           LET opt == opts[optIdx]
           IN  /\ (opt.name = "WithTheme" /\ opt.arg = "light") =>
                      newConv' = [newConv EXCEPT !.theme = LightTheme]
               /\ (opt.name = "WithTheme" /\ opt.arg = "dark") =>
                      newConv' = [newConv EXCEPT !.theme = DarkTheme]
               /\ (opt.name = "WithTheme" /\ opt.arg \notin {"light", "dark"}) =>
                      newConv' = newConv
               /\ opt.name = "WithCodeTheme" =>
                      newConv' = [newConv EXCEPT !.codeTheme = opt.arg]
               /\ optIdx' = optIdx + 1

C20_Result ==
    Constructed =>
        /\ newConv.theme =
               (IF LastArg("WithTheme", {"light", "dark"}, "light") = "dark"
                THEN DarkTheme ELSE LightTheme)
        /\ newConv.codeTheme = LastArg("WithCodeTheme", CodeThemeNames, "monokai")
        /\ (\A i \in 1..Len(opts) :
                opts[i].name = "WithTheme" => opts[i].arg \notin {"light", "dark"})
               => newConv.theme = LightTheme

\* C20: NewConverter starts from codeTheme monokai and the light theme and
\* applies its options in the order passed: WithTheme with a name of
\* availableThemes (light, dark) replaces the theme and nothing else, with
\* any other name it changes no field; WithCodeTheme sets codeTheme to its
\* argument, whatever it is, and changes no other field; so the Converter
\* returned has the theme of the last WithTheme with a known name, the light
\* theme where there is none, and the code theme of the last WithCodeTheme.
C20_OptionsInOrder == [][C20_Steps]_vars /\ []C20_Result

\* the dark theme was chosen, then an unknown theme name and a code theme
\* were passed: the Converter returned has the dark theme
C20_Witness ==
    /\ Constructed
    /\ opts = << Option("WithTheme", "dark"), Option("WithTheme", "Dark"),
                 Option("WithCodeTheme", "dracula") >>
    /\ newConv = [codeTheme |-> "dracula", theme |-> DarkTheme, quiet |-> FALSE]

-----------------------------------------------------------------------------
(* Specification of a slide with diagnostics: the slide composer, with    *)
(* the quiet flag set and not set, on sections of elements that cause     *)
(* each diagnostic: a code block of more than 20 lines, images that are   *)
(* missing or fail to load, and enough content to overflow.               *)

QuietElems ==
    { Elem("Text", << <<"a", "b">> >>, ""),
      Elem("List", << <<"a">>, <<"b">> >>, ""),
      Elem("Code", << BigCode >>, "go"),
      Elem("HTML", << << "<img src=\"none.png\">" >> >>, ""),
      Elem("HTML", << << "<img src=\"bad.png\">" >> >>, "") }

InitQuiet ==
    /\ section \in SeqsUpTo(QuietElems, MaxElems)
    /\ elemIdx = 0
    /\ ySlide = 0
    /\ pcSlide = "Start"
    /\ rendered = <<>>
    /\ \E q \in BOOLEAN : conv = NewConv(q, 2)
    /\ lexErr \in BOOLEAN
    /\ yIn = 0 /\ yOut = 0
    /\ IdleSplit /\ IdleCode /\ IdleHTML /\ IdlePre /\ IdleFns

SpecQuiet == InitQuiet /\ [][NextSlide]_vars

\* the conversion of the same section with the other value of the quiet
\* flag, after as many elements as this one has rendered: [c, y, k]
OtherRun ==
    RenderPrefix([c |-> SlideHead(NewConv(~conv.quiet, 2)), y |-> 45 * mm, k |-> 1],
                 section, Len(rendered), lexErr)

\* the kinds of the diagnostics written
DiagnosticKinds == {conv.stderr[i].kind : i \in 1..Len(conv.stderr)}

C23_Steps ==
    pcSlide = "Rendering" =>
        LET this == renderElement(conv, section[elemIdx], lexErr, ySlide)
            other == renderElement([conv EXCEPT !.quiet = ~@], section[elemIdx], lexErr,
                                   ySlide)
        IN  /\ other.y = this.y
            /\ other.c.pdf = this.c.pdf
            /\ conv'.pdf = this.c.pdf
            /\ ySlide' = this.y

C23_Runs ==
    /\ conv.quiet => conv.stderr = <<>>
    /\ pcSlide # "Start" =>
           LET other == OtherRun
           IN  /\ other.c.pdf = conv.pdf
               /\ other.y = ySlide
               /\ other.c.quiet = ~conv.quiet

\* C23: the conversion of a section with quiet set and the one with quiet
\* not set have issued the same sequence of drawing operations and are at
\* the same cursor after every element, so they stop at the same element;
\* one element rendered from the same state with either value of the flag
\* issues the same operations and returns the same cursor; with quiet set
\* nothing is written to stderr.
C23_QuietDiagnosticsOnly == [][C23_Steps]_vars /\ []C23_Runs

\* a slide converted with quiet not set has written an image diagnostic, a
\* truncation diagnostic and the overflow diagnostic
C23_Witness ==
    /\ pcSlide = "Overflow"
    /\ ~conv.quiet
    /\ Len(conv.stderr) = 3
    /\ Cardinality(DiagnosticKinds) = 3
    /\ OtherRun.c.stderr = <<>>
    /\ OtherRun.c.pdf = conv.pdf

\* the same slide converted with quiet set
C23_WitnessQuiet ==
    /\ pcSlide = "Overflow"
    /\ conv.quiet
    /\ Len(rendered) = 3
    /\ Len(OtherRun.c.stderr) = 2

-----------------------------------------------------------------------------
(* Specification of the flow renderer: renderFormattedText, one loop      *)
(* iteration per step, on fragments of every combination of styles, with  *)
(* words that fit, words that wrap and a word wider than the line, called *)
(* as its callers do: text colour SlideText, the parameters of a          *)
(* paragraph or of a list item.                                           *)

\* largest number of fragments of a formatted text
MaxFrags == 2

Styled(text, bold, italic, code, url) ==
    [Text |-> text, Bold |-> bold, Italic |-> italic, Code |-> code, URL |-> url]

\* two wide words in every combination of styles; a short word, a word
\* wider than the line and a text without words
FormatFragments ==
    { Styled(<<"W", " ", "W">>, b, i, c, u) : b \in BOOLEAN, i \in BOOLEAN, c \in BOOLEAN,
                                             u \in {"", "U"} }
        \cup { Styled(t, FALSE, FALSE, FALSE, "") : t \in {<<"a">>, <<"W", "W", "W">>, <<" ">>} }

InitFormat ==
    /\ textFragments \in SeqsUpTo(FormatFragments, MaxFrags)
    /\ yIn = 45 * mm
    /\ \E p \in {[x |-> 20 * mm, maxWidth |-> 257 * mm, lineHeight |-> 11 * mm],
                  [x |-> 30 * mm, maxWidth |-> 247 * mm, lineHeight |-> 9 * mm]} :
           layout = LayoutStart(p.x, yIn, p.maxWidth, p.lineHeight)
    /\ pcText = "start"
    /\ conv = SetTextColor(NewConv(TRUE, 2), "SlideText")
    /\ lexErr = FALSE
    /\ yOut = 0
    /\ IdleSplit /\ IdleCode /\ IdleHTML /\ IdleSlide /\ IdlePre
    /\ IdleParse /\ IdleDecode /\ IdleImage /\ IdleOpts

NextFormat == FormatStart \/ FormatFragment \/ FormatWord

SpecFormat == InitFormat /\ [][NextFormat]_vars

\* the step that is taken places a word
PlacesWord ==
    /\ pcText = "word"
    /\ layout.k <= Len(Fields(textFragments[layout.j].Text))

\* the word the step places, and its width measured with one trailing space
WordPlaced == Fields(textFragments[layout.j].Text)[layout.k]
WidthPlaced == GetStringWidth(conv.font, translator(WordPlaced \o <<" ">>))

\* the drawing operations the step issues
StepOps == SubSeq(conv'.pdf, Len(conv.pdf) + 1, Len(conv'.pdf))

\* the cells of the words drawn so far
WordCells == SelectSeq(conv.pdf, LAMBDA o : o.op \in {"Cell", "CellFormat"})

\* the lines used: one, or the number of vertical positions words were
\* placed at
LinesUsed ==
    IF WordCells = <<>> THEN 1
    ELSE Cardinality({WordCells[i].y : i \in 1..Len(WordCells)})

C24_Steps ==
    PlacesWord =>
        LET w == WidthPlaced
            breaks == layout.currentX + w > layout.x + layout.maxWidth
                          /\ layout.currentX > layout.x
            placedX == layout'.currentX - w
        IN  /\ w > 0
            /\ breaks => layout'.currentY = layout.currentY + layout.lineHeight /\ placedX = layout.x
            /\ ~breaks => layout'.currentY = layout.currentY /\ placedX = layout.currentX
            /\ placedX = layout.x \/ placedX + w <= layout.x + layout.maxWidth
            /\ w > layout.maxWidth =>
                   /\ placedX = layout.x
                   /\ layout.currentX = layout.x => layout'.currentY = layout.currentY
            /\ \E n \in 1..Len(StepOps) :
                   /\ StepOps[n].op \in {"Cell", "CellFormat"}
                   /\ StepOps[n].x = placedX /\ StepOps[n].y = layout'.currentY
                   /\ StepOps[n].w = w

C24_Returned ==
    pcText = "done" =>
        /\ yOut = yIn + layout.lineHeight * LinesUsed
        /\ textFragments = <<>> => yOut = yIn + layout.lineHeight

\* C24: a step of the word loop breaks the line (currentY += lineHeight,
\* currentX = x) before it places a word of width w, measured with one
\* trailing space, exactly if currentX + w > x + maxWidth and currentX > x;
\* the word is drawn where the cursor then is, so it starts at x or ends
\* at or before x + maxWidth; a word wider than maxWidth is placed at x and
\* the line is not broken again for it; renderFormattedText returns y +
\* lineHeight * the number of lines used, one line for no fragments.
C24_GreedyWrap == [][C24_Steps]_vars /\ []C24_Returned

\* a word wider than the line was placed at the line start, and the word
\* after it went to a second line
C24_Witness ==
    /\ pcText = "done"
    /\ Len(textFragments) = 2
    /\ textFragments[1].Text = <<"W", "W", "W">>
    /\ textFragments[2].Text = <<"a">>
    /\ LinesUsed = 2
    /\ WordCells[1].x = layout.x /\ WordCells[1].w > layout.maxWidth
    /\ WordCells[2].x = layout.x /\ WordCells[2].y = yIn + layout.lineHeight

\* the number of transforms open after the first n drawing operations
OpenAfter(n) ==
    Cardinality({i \in 1..n : conv.pdf[i].op = "TransformBegin"})
        - Cardinality({i \in 1..n : conv.pdf[i].op = "TransformEnd"})

IsWordCell(o) == o.op \in {"Cell", "CellFormat"}

C25_Steps ==
    PlacesWord =>
        LET ops == StepOps
            begins == {n \in 1..Len(ops) : ops[n].op = "TransformBegin"}
            ends == {n \in 1..Len(ops) : ops[n].op = "TransformEnd"}
            cells == {n \in 1..Len(ops) : IsWordCell(ops[n])}
        IN  /\ cells # {}
            /\ OpenAfter(Len(conv.pdf)) = 0
            /\ IF textFragments[layout.j].Italic
               THEN /\ Cardinality(begins) = 1 /\ Cardinality(ends) = 1
                    /\ \A b \in begins, e \in ends, n \in cells : b < n /\ n < e
                    /\ \A b \in begins :
                           /\ ops[b + 1].op = "TransformSkew"
                           /\ ops[b + 1].x = layout'.currentX - WidthPlaced
                           /\ ops[b + 1].y = layout'.currentY
                    /\ \A e \in ends : e = Len(ops)
               ELSE begins = {} /\ ends = {}

C25_Log ==
    /\ \A n \in 0..Len(conv.pdf) : OpenAfter(n) \in {0, 1}
    /\ OpenAfter(Len(conv.pdf)) = 0

\* C25: in the drawing operations of renderFormattedText TransformBegin
\* and TransformEnd alternate, so at most one transform is open at any
\* time; a word of an italic fragment is drawn by a step that begins one
\* transform, skews it at the origin of the word, draws the cells of the
\* word and ends the transform as its last operation; a word of a fragment
\* that is not italic is drawn with no transform open and none is begun;
\* no transform is open between two words or when the function returns.
C25_TransformsBalanced == [][C25_Steps]_vars /\ []C25_Log

\* two italic bold words of a link and two upright words have been drawn
C25_Witness ==
    /\ pcText = "done"
    /\ Len(textFragments) = 2
    /\ textFragments[1].Italic /\ textFragments[1].Bold /\ textFragments[1].URL = "U"
    /\ ~textFragments[1].Code
    /\ ~textFragments[2].Italic /\ textFragments[2].Text = <<"W", " ", "W">>
    /\ Cardinality({i \in 1..Len(conv.pdf) : conv.pdf[i].op = "TransformBegin"}) = 2
    /\ Cardinality({i \in 1..Len(conv.pdf) : conv.pdf[i].op = "TransformEnd"}) = 2
    /\ conv.pdf[Len(conv.pdf)].op = "Cell"

\* the ambient style: the text font at size 18 in the colour SlideText
AmbientStyle(c) == c.font = <<"Helvetica", 18>> /\ c.textColor = "SlideText"

C26_Steps ==
    (pcText = "word" /\ pcText' = "fragment") =>
        /\ AmbientStyle(conv')
        /\ layout'.j = layout.j + 1

C26_Style ==
    /\ pcText \in {"fragment", "done"} => AmbientStyle(conv)
    /\ pcText = "done" =>
           AmbientStyle(renderFormattedText(SetTextColor(NewConv(TRUE, 2), "SlideText"),
                                            textFragments, layout.x, yIn, layout.maxWidth,
                                            layout.lineHeight).c)

\* C26: the step that ends a fragment, whatever combination of Code, link,
\* Bold and Italic the fragment carries, leaves the text font at size 18
\* and the text colour SlideText; so every fragment starts, and
\* renderFormattedText returns, in the ambient style the caller set.
C26_StyleRestored == [][C26_Steps]_vars /\ []C26_Style

\* a bold italic inline-code link has been drawn in the code font and the
\* style has been restored for the next fragment
C26_Witness ==
    /\ pcText = "fragment"
    /\ layout.j = 2
    /\ Len(textFragments) = 2
    /\ textFragments[1] = Styled(<<"W", " ", "W">>, TRUE, TRUE, TRUE, "U")
    /\ \E i \in 1..Len(conv.pdf) :
           conv.pdf[i].op = "CellFormat" /\ conv.pdf[i].w = 2 * InlineCodeCharWidth
    /\ AmbientStyle(conv)

-----------------------------------------------------------------------------
(* Specification of blockquotes: renderHTML on fragments made of          *)
(* blockquotes (with one or two paragraphs, with a nested blockquote,     *)
(* with words that wrap, with inline code and with a word in two styles), *)
(* paragraphs and a list.                                                 *)

\* twelve letters: with two wide words before it the word ends 1 mm before
\* the right edge of a blockquote line in the text font
LongWord == [i \in 1..12 |-> "a"]

QuoteBlocks ==
    { <<"<blockquote>", "<p>", "b", "</p>", "</blockquote>">>,
      <<"<blockquote>", "<p>", "a", "</p>", NL, "<p>", "b", "</p>", "</blockquote>">>,
      <<"<blockquote>", "<p>", "a", "</p>", "<blockquote>", "<p>", "b", "</p>",
        "</blockquote>", "<p>", "c", "</p>", "</blockquote>">>,
      <<"<blockquote>", "<p>", "W", " ", "W", " ", "W", "</p>", "</blockquote>">>,
      <<"<blockquote>", "<p>", "W", " ", "W", " ", "<code>">> \o LongWord
          \o <<"</code>", "</p>", "</blockquote>">>,
      <<"<blockquote>", "<p>", "W", " ", "W", " ">> \o SubSeq(LongWord, 1, 6)
          \o <<"<strong>">> \o SubSeq(LongWord, 7, 12)
          \o <<"</strong>", "</p>", "</blockquote>">>,
      <<"<p>", "a", "</p>">>,
      <<"<ul>", "<li>", "a", "</li>", "</ul>">> }

InitQuote ==
    /\ \E bs \in SeqsUpTo(QuoteBlocks, MaxBlocks) : html = Concat(bs)
    /\ pcHTML = "start"
    /\ \E q \in BOOLEAN : conv = NewConv(q, 2)
    /\ lexErr = FALSE
    /\ yIn = 45 * mm
    /\ yOut = 0
    /\ IdleSplit /\ IdleCode /\ IdleSlide /\ IdlePre /\ IdleFns

SpecQuote == InitQuote /\ [][NextHTML]_vars

\* the number of blockquotes open at position i of h
QuoteDepth(h, i) ==
    Cardinality({n \in 1..(i - 1) : h[n] = "<blockquote>"})
        - Cardinality({n \in 1..(i - 1) : h[n] = "</blockquote>"})

\* the calls of the renderer fn on a part that holds position i
CallsOn(fn, i) ==
    {k \in 1..Len(conv.calls) :
        conv.calls[k].fn = fn /\ conv.calls[k].from <= i /\ i <= conv.calls[k].to}

C27_Body ==
    /\ \A i \in 1..Len(html) :
           (html[i] = "<p>" /\ QuoteDepth(html, i) > 0) =>
               /\ Cardinality(CallsOn("renderHTMLBlockquote", i)) = 1
               /\ CallsOn("renderHTMLParagraphs", i) = {}
    /\ (/\ Len(html) > 0
        /\ html[1] = "<blockquote>"
        /\ \A i \in 2..Len(html) : QuoteDepth(html, i) > 0
        /\ \E i \in 1..Len(html) : html[i] = "<p>") =>
           /\ Len(conv.calls) = 1
           /\ conv.calls[1] = [fn |-> "renderHTMLBlockquote", from |-> 1, to |-> Len(html),
                               y |-> yIn]

\* C27: after renderHTML, every paragraph that lies inside a blockquote is
\* in the part of exactly one renderHTMLBlockquote call and in the part of
\* no renderHTMLParagraphs call; a fragment that is one blockquote with
\* paragraphs gives a single renderHTMLBlockquote call on the whole
\* fragment.
C27_BlockquotePriority == pcHTML = "done" => C27_Body

\* no blockquote of the fragment lies inside another one
FlatQuotes(h) == \A i \in 1..(Len(h) + 1) : QuoteDepth(h, i) <= 1

\* the priority of blockquotes holds on fragments without nested
\* blockquotes
C27_FlatPriority == (pcHTML = "done" /\ FlatQuotes(html)) => C27_Body

\* a nested blockquote: the paragraph after the inner blockquote has been
\* dispatched to renderHTMLParagraphs
C27_NestedDispatched ==
    /\ pcHTML = "done"
    /\ ~FlatQuotes(html)
    /\ Len(conv.calls) = 2
    /\ conv.calls[1].fn = "renderHTMLBlockquote"
    /\ conv.calls[2].fn = "renderHTMLParagraphs"
    /\ QuoteDepth(html, conv.calls[2].from) = 1

\* the lines renderFormattedText uses for one blockquote paragraph
FlowLines(paraHTML) ==
    renderFormattedText(SetTextColor(NewConv(TRUE, 2), "SlideText"),
                        parseHTMLFormatting(paraHTML), 28 * mm, 0, 249 * mm, 11 * mm).y
        \div (11 * mm)

\* the lines the height estimation loop counts for one blockquote paragraph
EstimatedLines(paraHTML) ==
    CountLines([lines |-> 1, lineWidth |-> 0], Fields(stripHTMLTags(paraHTML)), 1, 249 * mm)

\* the cursor after the last paragraph of the blockquote of part, drawn at y
FinalTextY(part, y) ==
    BlockquoteText([c |-> SetTextColor(NewConv(TRUE, 2), "SlideText"), y |-> y + 4 * mm],
                   BlockquoteParagraphs(part), 1).y

\* C29: after renderHTML, for every renderHTMLBlockquote call and every
\* paragraph of its blockquote the height estimation loop counts as many
\* lines as renderFormattedText uses, and the text cursor after the last
\* paragraph is at most y + totalHeight - 4, the bottom padding of the
\* background rectangle.
C29_EstimateAgrees ==
    pcHTML = "done" =>
        \A k \in 1..Len(conv.calls) :
            conv.calls[k].fn = "renderHTMLBlockquote" =>
                LET part == SubSeq(html, conv.calls[k].from, conv.calls[k].to)
                    ps == BlockquoteParagraphs(part)
                    totalHeight == BlockquoteHeight(ps, 1, 4 * mm * 2)
                IN  /\ \A n \in 1..Len(ps) : EstimatedLines(ps[n]) = FlowLines(ps[n])
                    /\ FinalTextY(part, conv.calls[k].y) <= conv.calls[k].y + totalHeight - 4 * mm

\* the estimate agrees on paragraphs in which every word is one run of text
\* in the text font
C29_PlainAgrees ==
    pcHTML = "done" =>
        \A k \in 1..Len(conv.calls) :
            conv.calls[k].fn = "renderHTMLBlockquote" =>
                LET part == SubSeq(html, conv.calls[k].from, conv.calls[k].to)
                    ps == BlockquoteParagraphs(part)
                IN  \A n \in 1..Len(ps) :
                        (\A i \in 1..Len(ps[n]) : ps[n][i] \notin Tags) =>
                            EstimatedLines(ps[n]) = FlowLines(ps[n])

-----------------------------------------------------------------------------
(* Specification of a slide with tall and wide images: the slide composer *)
(* on sections of images of 400 x 300 and of 400 x 100, alone or in a     *)
(* paragraph, and of a text line.                                         *)

TallImage == "<img src=\"a.png\">"
WideImage == "<img src=\"w.png\">"

TallElems ==
    { Elem("HTML", << <<TallImage>> >>, ""),
      Elem("HTML", << <<"<p>", TallImage, "</p>">> >>, ""),
      Elem("HTML", << <<WideImage>> >>, ""),
      Elem("HTML", << <<"<p>", WideImage, "</p>">> >>, ""),
      Elem("Text", << <<"a", "b">> >>, "") }

InitTall ==
    /\ section \in SeqsUpTo(TallElems, MaxElems)
    /\ elemIdx = 0
    /\ ySlide = 0
    /\ pcSlide = "Start"
    /\ rendered = <<>>
    /\ \E q \in BOOLEAN : conv = NewConv(q, 2)
    /\ lexErr = FALSE
    /\ yIn = 0 /\ yOut = 0
    /\ IdleSplit /\ IdleCode /\ IdleHTML /\ IdlePre /\ IdleFns

SpecTall == InitTall /\ [][NextSlide]_vars

\* the native size of the image of an element, [w |-> 0, h |-> 0] when the
\* element is not an image
ImageOf(elem) ==
    LET tags == IF elem.kind = "HTML"
                THEN SelectSeq(elem.text[1], LAMBDA t : t \in {TallImage, WideImage})
                ELSE <<>>
    IN  IF tags = <<>> THEN [w |-> 0, h |-> 0]
        ELSE [w |-> ImageFiles(ImgSrc(tags[1])).w, h |-> ImageFiles(ImgSrc(tags[1])).h]

\* the loop of renderSlide is at an image that is drawn: more than 5 mm are
\* left above the bottom of the content area
AtImage ==
    /\ pcSlide = "Rendering"
    /\ ImageOf(section[elemIdx]).w > 0
    /\ imgContentBottom - ySlide > 5 * mm

\* the height left binds: maxH/imgH <= 257/imgW
HeightBinds ==
    RatLe(Rat(imgContentBottom - ySlide, ImageOf(section[elemIdx]).h),
          Rat(imgContentWidth, ImageOf(section[elemIdx]).w))

\* the image the step has drawn
StepImage == conv'.pdf[Len(conv.pdf) + 1]

C30_Geometry ==
    AtImage =>
        /\ Len(conv'.pdf) = Len(conv.pdf) + 1
        /\ StepImage.op = "Image" /\ StepImage.y = ySlide
        /\ ySlide' <= 195 * mm
        /\ HeightBinds =>
               /\ RatEq(StepImage.h, Rat(imgContentBottom - ySlide, 1))
               /\ ySlide' = 195 * mm
               /\ pcSlide' = "Overflow"
               /\ elemIdx' = elemIdx
        /\ ~HeightBinds =>
               /\ RatEq(StepImage.w, Rat(imgContentWidth, 1))
               /\ ySlide' < 195 * mm

OverflowReported ==
    conv'.stderr = Append(conv.stderr, OverflowWarning(conv, 195 * mm))

C30_StepsOriginal ==
    /\ C30_Geometry
    /\ (AtImage /\ HeightBinds) => OverflowReported

C30_Steps ==
    /\ C30_Geometry
    /\ (AtImage /\ HeightBinds) =>
           IF conv.quiet THEN conv'.stderr = conv.stderr ELSE OverflowReported

C30_WitnessQuiet ==
    /\ pcSlide = "Overflow"
    /\ Len(section) = 2 /\ elemIdx = 2
    /\ ySlide = 195 * mm
    /\ conv.quiet
    /\ conv.stderr = <<>>
    /\ conv.pdf[Len(conv.pdf)].op = "Image"


====
